---------------------------- MODULE Spec2Model ----------------------------
(***************************************************************************)
(* A model of the stencil-canvas pixel pipeline (src/src/lib/stencil.ts,   *)
(* halftone.ts, color.ts): colour decomposition, bold transform, halftone, *)
(* scuff / grain noise and the layer compositor.                           *)
(*                                                                         *)
(* Numbers.  JavaScript numbers are modelled as fixed-point values with    *)
(* resolution 1/Scale: the real x is the integer round(x * Scale).  Bytes  *)
(* of a Uint8ClampedArray are plain integers 0..255.  A division by zero   *)
(* yields NaN or an infinity as in IEEE arithmetic.                        *)
(***************************************************************************)
EXTENDS Integers, Sequences, FiniteSets, TLC

----------------------------------------------------------------------------
(* Bounds of the model *)

\* Longest ink list handed to computeStencil.
MaxInks == 2
\* Longest ink list handed to decomposeColors on its own.
MaxDecompInks == 2
\* Image width and height in pixels.
Width == 2
Height == 2

----------------------------------------------------------------------------
(* Fixed-point arithmetic *)

\* One unit of the fixed-point representation: the real 1.0.
Scale == 10000

\* IEEE special values of the number type.
NaN == -1000000000
PosInf == 1000000001
NegInf == -1000000001

IsFinite(x) == x # NaN /\ x # PosInf /\ x # NegInf

\* The sequence f as the array of its values.
Array(f) == f \o << >>

Abs(x) == IF x < 0 THEN -x ELSE x

Min(a, b) == IF a < b THEN a ELSE b

Max(a, b) == IF a > b THEN a ELSE b

\* n / d rounded to the nearest integer (d > 0), halves away from zero.
RoundDiv(n, d) == IF n >= 0 THEN (2 * n + d) \div (2 * d)
                  ELSE -((2 * (-n) + d) \div (2 * d))

\* The real n/d as a fixed-point value.
Ratio(n, d) == RoundDiv(n * Scale, d)

\* Product of two fixed-point values; NaN propagates.  The larger factor is
\* split into its integer and fractional part so that no intermediate
\* product leaves the 32-bit range.
Mul(a, b) ==
  IF a = NaN \/ b = NaN THEN NaN
  ELSE LET s == IF Abs(a) <= Abs(b) THEN a ELSE b
           l == IF Abs(a) <= Abs(b) THEN b ELSE a
       IN  s * (l \div Scale) + RoundDiv(s * (l % Scale), Scale)

\* Difference of two fixed-point values; NaN propagates.
Sub(a, b) == IF a = NaN \/ b = NaN THEN NaN ELSE a - b

\* Quotient of two fixed-point values: 0/0 is NaN, x/0 an infinity.  The
\* dividend is split into quotient and remainder to stay in the 32-bit range.
DivPos(a, b) == (a \div b) * Scale + RoundDiv((a % b) * Scale, b)

Div(a, b) ==
  IF a = NaN \/ b = NaN THEN NaN
  ELSE IF b = 0 THEN (IF a = 0 THEN NaN ELSE IF a > 0 THEN PosInf ELSE NegInf)
  ELSE IF b > 0 THEN DivPos(a, b)
  ELSE DivPos(-a, -b)

\* Math.max(0, Math.min(1, x)): NaN stays NaN, the infinities are clamped.
Clamp01(x) ==
  IF x = NaN THEN NaN
  ELSE IF x = PosInf THEN Scale
  ELSE IF x = NegInf THEN 0
  ELSE Max(0, Min(Scale, x))

\* Math.floor of a fixed-point value, as an integer.
Floor(x) == x \div Scale

\* Math.ceil of a fixed-point value, as an integer.
Ceil(x) == -((-x) \div Scale)

\* Math.round of a fixed-point value, as an integer: halves go up.
Round(x) == (2 * x + Scale) \div (2 * Scale)

\* Integer square root by bits: the largest r with r * r <= n.
RECURSIVE ISqrtBits(_, _, _)
ISqrtBits(n, r, bit) ==
  IF bit = 0 THEN r
  ELSE IF (r + bit) <= n \div (r + bit) THEN ISqrtBits(n, r + bit, bit \div 2)
       ELSE ISqrtBits(n, r, bit \div 2)

ISqrt(n) == ISqrtBits(n, 0, 32768)

\* Math.sqrt of a fixed-point value x >= 0.  Scale = 100 * 100, so
\* sqrt(x / Scale) * Scale = sqrt(x * Scale) = 10 * sqrt(100 * x) = 100 * sqrt(x);
\* the most precise form that stays in range is used.
Sqrt(x) ==
  IF x <= 200000 THEN ISqrt(x * Scale)
  ELSE IF x <= 20000000 THEN 10 * ISqrt(x * 100)
  ELSE 100 * ISqrt(x)


----------------------------------------------------------------------------
(* Colour utilities (color.ts) *)

\* A "#RRGGBB" string is the sequence of its six hexadecimal digits.
HexToRgb(hex) ==
  [r |-> 16 * hex[1] + hex[2], g |-> 16 * hex[3] + hex[4], b |-> 16 * hex[5] + hex[6]]

\* Rec. 709 luminance of a pixel, divided by 255: a fixed-point value in [0,1].
\* 0.2126, 0.7152 and 0.0722 are exact at the model's resolution.
Luminance709(px) ==
  RoundDiv(2126 * px[1] + 7152 * px[2] + 722 * px[3], 255)

WHITE == [r |-> 255, g |-> 255, b |-> 255]

DEFAULT_PAPER == [r |-> 245, g |-> 240, b |-> 232]

----------------------------------------------------------------------------
(* decomposeColors (stencil.ts): non-negative least squares by coordinate   *)
(* descent                                                                 *)

MAX_ITER == 12

\* selfDot > 1e-10: at the model's resolution 1e-10 is 0.
SelfDotEps == 0

\* alpha < 0.01
AlphaCutoff == Scale \div 100

\* The absorption vector of an ink: (paper - ink) / 255 per channel.
InkDelta(ink, paper) ==
  << Ratio(paper.r - ink.r, 255), Ratio(paper.g - ink.g, 255),
     Ratio(paper.b - ink.b, 255) >>

Dot3(u, v) == Mul(u[1], v[1]) + Mul(u[2], v[2]) + Mul(u[3], v[3])

\* The Gram matrix of the absorption vectors.
DotInkInk(inkRgbs, paper) ==
  Array([i \in 1..Len(inkRgbs) |->
    Array([j \in 1..Len(inkRgbs) |->
      Dot3(InkDelta(inkRgbs[i], paper), InkDelta(inkRgbs[j], paper))])])

\* target = (paper - pixel) / 255 * alpha
Target(px, paper) ==
  LET alpha == Ratio(px[4], 255)
  IN  << Mul(Ratio(paper.r - px[1], 255), alpha),
         Mul(Ratio(paper.g - px[2], 255), alpha),
         Mul(Ratio(paper.b - px[3], 255), alpha) >>

DotInkTarget(px, inkRgbs, paper) ==
  Array([i \in 1..Len(inkRgbs) |-> Dot3(InkDelta(inkRgbs[i], paper), Target(px, paper))])

\* The projection without the guard on selfDot.
ProjectUnguarded(numerator, selfDot) == Clamp01(Div(numerator, selfDot))

\* selfDot > 1e-10 ? max(0, min(1, numerator / selfDot)) : 0
Project(numerator, selfDot) ==
  IF selfDot > SelfDotEps THEN Clamp01(Div(numerator, selfDot)) ELSE 0

\* The initial value of every density: the simple projection.
InitialProjection(dotInkTarget, dotInkInk) ==
  Array([i \in 1..Len(dotInkTarget) |-> Project(dotInkTarget[i], dotInkInk[i][i])])

\* numerator = dotInkTarget[i] - sum over j # i of densities[j] * dotInkInk[i][j]
RECURSIVE Numerator(_, _, _, _, _)
Numerator(i, j, acc, densities, dotInkInk) ==
  IF j > Len(densities) THEN acc
  ELSE Numerator(i, j + 1,
                 IF j # i THEN Sub(acc, Mul(densities[j], dotInkInk[i][j])) ELSE acc,
                 densities, dotInkInk)

\* One sweep: the inks are updated in list order, each update seeing the
\* densities already updated in this sweep.
RECURSIVE SweepFrom(_, _, _, _)
SweepFrom(i, densities, dotInkTarget, dotInkInk) ==
  IF i > Len(densities) THEN densities
  ELSE SweepFrom(i + 1,
         [densities EXCEPT ![i] =
            Project(Numerator(i, 1, dotInkTarget[i], densities, dotInkInk),
                    dotInkInk[i][i])],
         dotInkTarget, dotInkInk)

Sweep(densities, dotInkTarget, dotInkInk) ==
  SweepFrom(1, densities, dotInkTarget, dotInkInk)

RECURSIVE Sweeps(_, _, _, _)
Sweeps(k, densities, dotInkTarget, dotInkInk) ==
  IF k = 0 THEN densities
  ELSE Sweeps(k - 1, Sweep(densities, dotInkTarget, dotInkInk), dotInkTarget, dotInkInk)

\* The densities of one pixel, one per ink.
DecomposePixel(px, inkRgbs, paper) ==
  IF Ratio(px[4], 255) < AlphaCutoff
    THEN [i \in 1..Len(inkRgbs) |-> 0]
    ELSE LET T == DotInkTarget(px, inkRgbs, paper)
             G == DotInkInk(inkRgbs, paper)
         IN  Sweeps(MAX_ITER, InitialProjection(T, G), T, G)

\* decomposeColors: one density map per ink, each a sequence over the pixels.
DecomposeColors(data, inkRgbs, paper) ==
  LET perPixel == Array([p \in 1..Len(data) |-> DecomposePixel(data[p], inkRgbs, paper)])
  IN  Array([i \in 1..Len(inkRgbs) |-> Array([p \in 1..Len(data) |-> perPixel[p][i]])])


----------------------------------------------------------------------------
(* 32-bit integer arithmetic of the hash functions.  A 32-bit word is the  *)
(* pair << high 16 bits, low 16 bits >>, so that every intermediate value  *)
(* fits the model checker's integers.                                      *)

\* ToInt32 / ToUint32 of an integer: its value modulo 2^32.
W32(n) == << (n \div 65536) % 65536, n % 65536 >>

\* The low 16 bits of the product of two 16-bit values.
Mul16Lo(a, b) == ((a % 256) * b + (((a \div 256) * b) % 256) * 256) % 65536

\* The 32-bit product of two 16-bit values.
Mul16(a, b) ==
  LET p0 == (a % 256) * b
      p1 == (a \div 256) * b
      lo == (p1 % 256) * 256 + p0
  IN  << (p1 \div 256) + (lo \div 65536), lo % 65536 >>

\* Math.imul and the exact small products x * c, reduced modulo 2^32.
W32Mul(a, b) ==
  LET ll == Mul16(a[2], b[2])
  IN  << (ll[1] + Mul16Lo(a[1], b[2]) + Mul16Lo(a[2], b[1])) % 65536, ll[2] >>

W32Add(a, b) ==
  << (a[1] + b[1] + ((a[2] + b[2]) \div 65536)) % 65536, (a[2] + b[2]) % 65536 >>

\* Bitwise exclusive or of two 16-bit values.
RECURSIVE Xor16(_, _, _)
Xor16(a, b, bits) ==
  IF bits = 0 THEN 0
  ELSE ((a + b) % 2) + 2 * Xor16(a \div 2, b \div 2, bits - 1)

W32Xor(a, b) == << Xor16(a[1], b[1], 16), Xor16(a[2], b[2], 16) >>

\* h >>> 13
W32Shr13(a) == << a[1] \div 8192, (a[1] % 8192) * 8 + (a[2] \div 8192) >>

\* h >>> 16
W32Shr16(a) == << 0, a[1] >>

\* (h >>> 0) / 4294967296 as a fixed-point value in [0, 1).
W32Unit(a) == (a[1] * Scale + ((a[2] * Scale) \div 65536)) \div 65536

\* The multipliers of the hashes: 374761393, 668265263, 1013904223, 1274126177.
HashMulX == << 5718, 26545 >>
HashMulY == << 10196, 60207 >>
HashMulSeed == << 15470, 62303 >>
HashMulMix == << 19441, 40801 >>

\* The two mixing steps shared by cellHash and scuffHash.
HashMix(h) ==
  LET h1 == W32Mul(W32Xor(h, W32Shr13(h)), HashMulMix)
  IN  W32Xor(h1, W32Shr16(h1))

\* cellHash (halftone.ts): cell coordinates -> threshold in [0, 1).
CellHash(x, y) ==
  W32Unit(HashMix(W32Add(W32Mul(W32(x), HashMulX), W32Mul(W32(y), HashMulY))))

\* scuffHash (stencil.ts): cell coordinates and seed -> [0, 1).
ScuffHash(x, y, seed) ==
  W32Unit(HashMix(W32Add(W32Add(W32Mul(W32(x), HashMulX), W32Mul(W32(y), HashMulY)),
                         W32Mul(W32(seed), HashMulSeed))))

----------------------------------------------------------------------------
(* Halftone (halftone.ts) *)

\* An absent optional field (undefined).
Undefined == -999999

\* cos of a multiple of 15 degrees in 0..90.
CosTable ==
  [a \in {0, 15, 30, 45, 60, 75, 90} |->
    CASE a = 0 -> 10000 [] a = 15 -> 9659 [] a = 30 -> 8660 [] a = 45 -> 7071
      [] a = 60 -> 5000 [] a = 75 -> 2588 [] a = 90 -> 0]

\* Math.cos(angle * Math.PI / 180) for an angle that is a multiple of 15 degrees.
Cos(angle) ==
  LET a == angle % 360
  IN  IF a <= 90 THEN CosTable[a]
      ELSE IF a <= 180 THEN -CosTable[180 - a]
      ELSE IF a <= 270 THEN -CosTable[a - 180]
      ELSE CosTable[360 - a]

\* Math.sin(angle * Math.PI / 180)
Sin(angle) == Cos(angle + 270)

\* The largest element of a non-empty set of numbers.
MaxOf(S) == CHOOSE m \in S : \A v \in S : v <= m

\* The anti-aliased opacity of a dot of the given radius at distance dist.
DotOpacity(dist, radius, edge) ==
  IF dist < radius - edge THEN Scale
  ELSE Scale - Div(dist - (radius - edge), 2 * edge)

\* The density sampled at a dot centre, scaled and clamped:
\* out-of-bounds centres sample density 0.
SampleDensity(densityMap, width, height, imgX, imgY, scale) ==
  LET d == IF imgX >= 0 /\ imgX < width /\ imgY >= 0 /\ imgY < height
             THEN densityMap[imgY * width + imgX + 1]
             ELSE 0
  IN  Min(Mul(d, scale), Scale)

\* (c + 0.5) * cellSize
DotCentre(c, cellSize) == ((2 * c + 1) * cellSize) \div 2

\* The opacity one candidate dot of the AM screen gives pixel (rx, ry), 0 when
\* the loop body ends by continue.
AMDot(densityMap, width, height, rx, ry, cx, cy, cellSize, cos, sin, scale) ==
  LET edge == Scale \div 2
      dotRx == DotCentre(cx, cellSize)
      dotRy == DotCentre(cy, cellSize)
      imgX == Round(Mul(dotRx, cos) - Mul(dotRy, sin))
      imgY == Round(Mul(dotRx, sin) + Mul(dotRy, cos))
      d == SampleDensity(densityMap, width, height, imgX, imgY, scale)
      radius == Mul(Mul(Sqrt(d), Scale \div 2), cellSize)
      distX == rx - dotRx
      distY == ry - dotRy
      dist == Sqrt(Mul(distX, distX) + Mul(distY, distY))
      opacity == DotOpacity(dist, radius, edge)
  IN  IF d < Scale \div 1000 THEN 0
      ELSE IF dist > radius + edge THEN 0
      ELSE IF radius < Scale
             THEN Mul(opacity, Scale - Mul(Scale - radius, Scale - Sqrt(d)))
             ELSE opacity

\* applyAMHalftone when only the dot of the pixel's own cell is examined.
AMOpacityAtOwnCell(densityMap, width, height, x, y, dotSize, angle, scale) ==
  LET cellSize == dotSize + 2 * Scale
      cos == Cos(angle)
      sin == Sin(angle)
      rx == x * cos + y * sin
      ry == (-x) * sin + y * cos
      gx == rx \div cellSize
      gy == ry \div cellSize
  IN  AMDot(densityMap, width, height, rx, ry, gx, gy, cellSize, cos, sin, scale)

\* applyAMHalftone: the opacity of pixel (x, y).
AMOpacityAt(densityMap, width, height, x, y, dotSize, angle, scale) ==
  LET cellSize == dotSize + 2 * Scale
      cos == Cos(angle)
      sin == Sin(angle)
      rx == x * cos + y * sin
      ry == (-x) * sin + y * cos
      gx == rx \div cellSize
      gy == ry \div cellSize
  IN  MaxOf({0} \cup
        { AMDot(densityMap, width, height, rx, ry, gx + dx, gy + dy,
                cellSize, cos, sin, scale) : dx \in -1..1, dy \in -1..1 })

\* A candidate dot of the FM screen whose radius grows with the density as
\* in the AM screen.
FMDotDensityRadius(densityMap, width, height, rx, ry, cx, cy, dotSize, cos, sin, scale) ==
  LET cellSize == dotSize
      edge == Max(Scale \div 2, Div(Scale \div 2, dotSize))
      subPixelBlend == Max(0, Scale - dotSize \div 2)
      dotRx == DotCentre(cx, cellSize)
      dotRy == DotCentre(cy, cellSize)
      distX == rx - dotRx
      distY == ry - dotRy
      dist == Sqrt(Mul(distX, distX) + Mul(distY, distY))
      imgX == Round(Mul(dotRx, cos) - Mul(dotRy, sin))
      imgY == Round(Mul(dotRx, sin) + Mul(dotRy, cos))
      d == SampleDensity(densityMap, width, height, imgX, imgY, scale)
      dotRadius == Mul(Sqrt(d), dotSize \div 2)
      threshold == CellHash(cx, cy)
      opacity == DotOpacity(dist, dotRadius, edge)
  IN  IF dist > dotRadius + edge THEN 0
      ELSE IF d <= threshold THEN 0
      ELSE IF subPixelBlend > 0
             THEN Mul(opacity, Scale - Mul(subPixelBlend, Scale - Sqrt(d)))
             ELSE opacity

\* The opacity one candidate dot of the FM screen gives pixel (rx, ry).
FMDot(densityMap, width, height, rx, ry, cx, cy, dotSize, cos, sin, scale) ==
  LET cellSize == dotSize
      dotRadius == dotSize \div 2
      edge == Max(Scale \div 2, Div(Scale \div 2, dotSize))
      subPixelBlend == Max(0, Scale - dotRadius)
      dotRx == DotCentre(cx, cellSize)
      dotRy == DotCentre(cy, cellSize)
      distX == rx - dotRx
      distY == ry - dotRy
      dist == Sqrt(Mul(distX, distX) + Mul(distY, distY))
      imgX == Round(Mul(dotRx, cos) - Mul(dotRy, sin))
      imgY == Round(Mul(dotRx, sin) + Mul(dotRy, cos))
      d == SampleDensity(densityMap, width, height, imgX, imgY, scale)
      threshold == CellHash(cx, cy)
      opacity == DotOpacity(dist, dotRadius, edge)
  IN  IF dist > dotRadius + edge THEN 0
      ELSE IF d <= threshold THEN 0
      ELSE IF subPixelBlend > 0
             THEN Mul(opacity, Scale - Mul(subPixelBlend, Scale - Sqrt(d)))
             ELSE opacity

\* applyFMHalftone: the opacity of pixel (x, y).
FMOpacityAt(densityMap, width, height, x, y, dotSize, angle, scale) ==
  LET cellSize == dotSize
      dotRadius == dotSize \div 2
      edge == Max(Scale \div 2, Div(Scale \div 2, dotSize))
      cos == Cos(angle)
      sin == Sin(angle)
      rx == x * cos + y * sin
      ry == (-x) * sin + y * cos
      gx == rx \div cellSize
      gy == ry \div cellSize
      searchRange == Ceil(Div(dotRadius + edge, cellSize))
  IN  MaxOf({0} \cup
        { FMDot(densityMap, width, height, rx, ry, gx + dx, gy + dy,
                dotSize, cos, sin, scale) :
            dx \in (-searchRange)..searchRange, dy \in (-searchRange)..searchRange })

\* applyHalftone: the opacity map of a density map.  options.density ?? 1.
ApplyHalftone(densityMap, width, height, options) ==
  LET scale == IF options.density = Undefined THEN Scale ELSE options.density
  IN  Array([p \in 1..(width * height) |->
        IF options.mode = "fm"
          THEN FMOpacityAt(densityMap, width, height, (p - 1) % width,
                           (p - 1) \div width, options.dotSize, options.angle, scale)
          ELSE AMOpacityAt(densityMap, width, height, (p - 1) % width,
                           (p - 1) \div width, options.dotSize, options.angle, scale)])

----------------------------------------------------------------------------
(* applyBoldTransform (stencil.ts) *)

\* exp(z) for |z| <= 0.5: the Taylor polynomial of degree 5, by Horner's rule.
ExpSmall(z) ==
  Scale + Mul(z, Scale + Mul(z \div 2, Scale + Mul(z \div 3,
          Scale + Mul(z \div 4, Scale + z \div 5))))

Square(x) == Mul(x, x)

\* Math.exp(y) for -4 <= y <= 4: exp(y / 8) squared three times.
Exp(y) == Square(Square(Square(ExpSmall(RoundDiv(y, 8)))))

SUPPRESSION_POWER == 2
SIGMOID_GAIN == 6
\* SIGMOID_MID = 0.35
SIGMOID_MID == (35 * Scale) \div 100

\* 1 / (1 + Math.exp(-SIGMOID_GAIN * (x - SIGMOID_MID)))
Sigmoid(x) == Div(Scale, Scale + Exp(-(SIGMOID_GAIN * (x - SIGMOID_MID))))

\* Math.pow(ratio, SUPPRESSION_POWER)
RECURSIVE Pow(_, _)
Pow(x, n) == IF n = 0 THEN Scale ELSE Mul(x, Pow(x, n - 1))

\* Phase 1 on one density: maps[i][p] *= Math.pow(maps[i][p] / maxD, 2).
SuppressDensity(d, maxD) == Mul(d, Pow(Div(d, maxD), SUPPRESSION_POWER))

\* Phase 2 on one density: 0 below 0.001, else the normalised sigmoid clamped.
ContrastDensity(x) ==
  IF x < Scale \div 1000 THEN 0
  ELSE Clamp01(Div(Sigmoid(x) - Sigmoid(0), Sigmoid(Scale) - Sigmoid(0)))

\* The densities of one pixel after both phases; ds is the sequence of the
\* inks' densities at the pixel.
BoldPixel(ds) ==
  LET maxD == MaxOf({0} \cup { ds[i] : i \in 1..Len(ds) })
      s0 == Sigmoid(0)
      s1 == Sigmoid(Scale)
      sRange == s1 - s0
      suppressed == Array([i \in 1..Len(ds) |-> Mul(ds[i], Pow(Div(ds[i], maxD), SUPPRESSION_POWER))])
  IN  IF maxD < Scale \div 100 THEN ds
      ELSE Array([i \in 1..Len(ds) |->
             IF suppressed[i] < Scale \div 1000 THEN 0
             ELSE Clamp01(Div(Sigmoid(suppressed[i]) - s0, sRange))])

\* applyBoldTransform: the maps after the transform (nothing to do without inks).
ApplyBoldTransform(maps, pixelCount) ==
  IF Len(maps) = 0 THEN maps
  ELSE LET perPixel == Array([p \in 1..pixelCount |->
                          BoldPixel([i \in 1..Len(maps) |-> maps[i][p]])])
       IN  Array([i \in 1..Len(maps) |-> Array([p \in 1..pixelCount |-> perPixel[p][i]])])

----------------------------------------------------------------------------
(* Scuff noise (stencil.ts) *)

\* smoothNoise: bilinear, smoothstep-interpolated value noise in [0, 1].
SmoothNoise(x, y, cellSize, seed) ==
  LET gx == (x * Scale) \div cellSize
      gy == (y * Scale) \div cellSize
      fx == Div(x * Scale, cellSize) - gx * Scale
      fy == Div(y * Scale, cellSize) - gy * Scale
      n00 == ScuffHash(gx, gy, seed)
      n10 == ScuffHash(gx + 1, gy, seed)
      n01 == ScuffHash(gx, gy + 1, seed)
      n11 == ScuffHash(gx + 1, gy + 1, seed)
      sx == Mul(Mul(fx, fx), 3 * Scale - 2 * fx)
      sy == Mul(Mul(fy, fy), 3 * Scale - 2 * fy)
  IN  Mul(Mul(n00, Scale - sx) + Mul(n10, sx), Scale - sy)
        + Mul(Mul(n01, Scale - sx) + Mul(n11, sx), sy)

\* The three-octave noise value n of pixel p for the ink at list position ci
\* (0-based), and the deviation (0.5 - n) * 2.
ScuffNoise(p, width, ci, dotSize, noise) ==
  LET seed == ci * 7919 + 31
      baseSize == Max(dotSize * 4, 8 * Scale)
      scuffSize1 == Mul(baseSize, Scale + noise * 8)
      scuffSize2 == scuffSize1 * 3
      scuffSize3 == scuffSize2 * 3
      px == (p - 1) % width
      py == (p - 1) \div width
      n1 == SmoothNoise(px, py, scuffSize1, seed)
      n2 == SmoothNoise(px, py, scuffSize2, seed + 997)
      n3 == SmoothNoise(px, py, scuffSize3, seed + 2003)
  IN  Mul(n1, (3 * Scale) \div 10) + Mul(n2, (4 * Scale) \div 10)
        + Mul(n3, (3 * Scale) \div 10)

ScuffDeviation(p, width, ci, dotSize, noise) ==
  (Scale \div 2 - ScuffNoise(p, width, ci, dotSize, noise)) * 2

\* The factor when the deviation acts on both sides: it fades the opacity
\* where it is positive and raises it where it is negative.
ScuffFactorTwoSided(p, width, ci, dotSize, noise) ==
  Max(0, Scale - Mul(ScuffDeviation(p, width, ci, dotSize, noise), noise) * 2)

\* The factor the scuff pass multiplies the opacity of pixel p by.
ScuffFactor(p, width, ci, dotSize, noise) ==
  LET deviation == ScuffDeviation(p, width, ci, dotSize, noise)
  IN  IF deviation > 0 THEN Max(0, Scale - Mul(deviation, noise) * 2) ELSE Scale

\* The scuff pass over a halftone map (the identity when noise <= 0).
ApplyScuff(halftoneMap, width, ci, dotSize, noise) ==
  IF noise > 0
    THEN Array([p \in 1..Len(halftoneMap) |->
           IF halftoneMap[p] < (4 * Scale) \div 1000 THEN halftoneMap[p]
           ELSE Mul(halftoneMap[p], ScuffFactor(p, width, ci, dotSize, noise))])
    ELSE halftoneMap

----------------------------------------------------------------------------
(* computeStencil (stencil.ts): the stages of the pipeline as operators *)

DEFAULT_ANGLES == << 15, 75, 0, 45, 30, 60, 90, 105 >>

\* inkOpacity = 0.85 when the option is absent.
DEFAULT_INK_OPACITY == (85 * Scale) \div 100

\* The 0.004 cutoff for opacities and coverages.
OpacityEps == (4 * Scale) \div 1000

\* A store into a Uint8ClampedArray of an integer value.
ClampByte(v) == IF v = NaN THEN 0 ELSE Max(0, Min(255, v))

\* The pixel data with R, G and B inverted and alpha kept.
InvertData(data) ==
  Array([p \in 1..Len(data) |->
    << 255 - data[p][1], 255 - data[p][2], 255 - data[p][3], data[p][4] >>])

\* source: the inverted copy when invert is set, the input otherwise.
SourceOf(data, options) == IF options.invert THEN InvertData(data) ELSE data

InkRgbs(colors) == Array([i \in 1..Len(colors) |-> HexToRgb(colors[i].color)])

\* No ink is treated as low-absorption.
IsLowAbsorptionNever(ink) == FALSE

\* sqrt(dR^2 + dG^2 + dB^2) < ABSORPTION_THRESHOLD (0.05) with dX = (255 - x) / 255:
\* squared and cleared of fractions, 400 * sum (255 - x)^2 < 255^2.
IsLowAbsorption(ink) ==
  400 * ((255 - ink.r) * (255 - ink.r) + (255 - ink.g) * (255 - ink.g)
           + (255 - ink.b) * (255 - ink.b)) < 255 * 255

\* decompInks: the inks that are not low-absorption, in list order.
DecompInksOf(inkRgbs) == SelectSeq(inkRgbs, LAMBDA ink : ~IsLowAbsorption(ink))

\* The position in decompInks of the ink at position i of the list.
DecompIndex(inkRgbs, i) ==
  Cardinality({ j \in 1..i : ~IsLowAbsorption(inkRgbs[j]) })

\* The luminance fallback without the factor alpha.
LuminanceMapNoAlpha(source) ==
  Array([p \in 1..Len(source) |-> Scale - Luminance709(source[p])])

\* The luminance fallback of a low-absorption ink: (1 - lum) * a per pixel.
LuminanceMap(source) ==
  Array([p \in 1..Len(source) |->
    Mul(Scale - Luminance709(source[p]), Ratio(source[p][4], 255))])

\* densityMaps as assembled from the decomposition and the fallback.
\* The separation with the basis of the decomposition as a parameter.
SeparatedMapsOn(source, inkRgbs, basis) ==
  LET decompInks == DecompInksOf(inkRgbs)
      decompMaps == IF Len(decompInks) > 0
                      THEN DecomposeColors(source, decompInks, basis)
                      ELSE << >>
  IN  Array([i \in 1..Len(inkRgbs) |->
        IF IsLowAbsorption(inkRgbs[i]) THEN LuminanceMap(source)
        ELSE decompMaps[DecompIndex(inkRgbs, i)]])

SeparatedMaps(source, inkRgbs) ==
  LET decompInks == DecompInksOf(inkRgbs)
      decompMaps == IF Len(decompInks) > 0
                      THEN DecomposeColors(source, decompInks, WHITE)
                      ELSE << >>
  IN  Array([i \in 1..Len(inkRgbs) |->
        IF IsLowAbsorption(inkRgbs[i]) THEN LuminanceMap(source)
        ELSE decompMaps[DecompIndex(inkRgbs, i)]])

\* The angle when a given angle of 0 counts as not given (|| in place of ??).
ScreenAngleTruthy(colors, ci) ==
  IF colors[ci + 1].angle # Undefined /\ colors[ci + 1].angle # 0
    THEN colors[ci + 1].angle
    ELSE DEFAULT_ANGLES[(ci % Len(DEFAULT_ANGLES)) + 1]

\* colors[ci].angle ?? DEFAULT_ANGLES[ci % DEFAULT_ANGLES.length]  (ci from 0)
ScreenAngle(colors, ci) ==
  IF colors[ci + 1].angle # Undefined THEN colors[ci + 1].angle
  ELSE DEFAULT_ANGLES[(ci % Len(DEFAULT_ANGLES)) + 1]

\* The halftone map of layer ci.
LayerHalftone(densityMaps, options, ci, width, height) ==
  ApplyHalftone(densityMaps[ci + 1], width, height,
                [dotSize |-> options.dotSize, angle |-> ScreenAngle(options.colors, ci),
                 density |-> options.density, mode |-> options.halftoneMode])

\* Math.round((Math.random() - 0.5) * 2 * misregistration), or 0 without a draw.
Offset(random, misregistration) ==
  IF misregistration > 0
    THEN Round(Mul((random - Scale \div 2) * 2, misregistration))
    ELSE 0

\* The opacity a layer composites onto destination pixel p: the (scuffed)
\* halftone map sampled at the shifted source coordinate, then grain.  A
\* destination whose source lies outside the image is skipped: opacity 0, no grain.
\* The opacity of destination pixel p when a source coordinate outside the
\* image wraps around to the opposite edge.
CompositedOpacityWrapped(map, p, width, height, ox, oy, grain, random) ==
  LET srcX == (((p - 1) % width) - ox) % width
      srcY == (((p - 1) \div width) - oy) % height
      opacity == map[srcY * width + srcX + 1]
  IN  IF grain > 0
        THEN Clamp01(opacity + Mul(random - Scale \div 2, grain))
        ELSE opacity

\* The opacity of destination pixel p when the grain is added without the
\* clamp to [0, 1].
CompositedOpacityUnclamped(map, p, width, height, ox, oy, grain, random) ==
  LET srcX == ((p - 1) % width) - ox
      srcY == ((p - 1) \div width) - oy
      opacity == map[srcY * width + srcX + 1]
  IN  IF srcX < 0 \/ srcX >= width \/ srcY < 0 \/ srcY >= height THEN 0
      ELSE IF grain > 0
             THEN opacity + Mul(random - Scale \div 2, grain)
             ELSE opacity

CompositedOpacity(map, p, width, height, ox, oy, grain, random) ==
  LET srcX == ((p - 1) % width) - ox
      srcY == ((p - 1) \div width) - oy
      opacity == map[srcY * width + srcX + 1]
  IN  IF srcX < 0 \/ srcX >= width \/ srcY < 0 \/ srcY >= height THEN 0
      ELSE IF grain > 0
             THEN Clamp01(opacity + Mul(random - Scale \div 2, grain))
             ELSE opacity

\* How many times one pass of the layer loop calls Math.random(): twice for the
\* offsets when misregistration > 0, and once for every destination pixel whose
\* source coordinate is inside the image when grain > 0.
RandomCalls(width, height, ox, oy, options) ==
  LET inside == { p \in 1..(width * height) :
                    LET srcX == ((p - 1) % width) - ox
                        srcY == ((p - 1) \div width) - oy
                    IN  ~(srcX < 0 \/ srcX >= width \/ srcY < 0 \/ srcY >= height) }
  IN  (IF options.misregistration > 0 THEN 2 ELSE 0)
        + (IF options.grain > 0 THEN Cardinality(inside) ELSE 0)

\* One channel of the multiply blend: Math.round(out * (1 - a * (1 - c / 255))).
BlendChannel(byte, a, c) ==
  ClampByte(Round(byte * (Scale - Mul(a, Scale - Ratio(c, 255)))))

\* The accumulation pixel after one layer of opacity `opacity` of ink rgb.
BlendPixel(px, opacity, rgb, inkOpacity) ==
  IF opacity < OpacityEps THEN px
  ELSE LET a == Mul(opacity, inkOpacity)
       IN  << BlendChannel(px[1], a, rgb.r), BlendChannel(px[2], a, rgb.g),
              BlendChannel(px[3], a, rgb.b), px[4] >>

\* The coverage after one layer when the union is taken without the test
\* opacity < 0.004.
BlendAlphaNoCutoff(alpha, opacity, inkOpacity) ==
  Scale - Mul(Scale - alpha, Scale - Mul(opacity, inkOpacity))

\* The coverage after one layer: 1 - (1 - alpha) * (1 - a).
BlendAlpha(alpha, opacity, inkOpacity) ==
  IF opacity < OpacityEps THEN alpha
  ELSE Scale - Mul(Scale - alpha, Scale - Mul(opacity, inkOpacity))

\* Transparent mode: the straight colour and alpha of one pixel.
UnmultiplyChannel(byte, a) ==
  ClampByte(Max(0, Round(Div(byte * Scale - 255 * (Scale - a), a))))

\* Transparent mode without the cutoff and without the colour extraction.
FinalizeTransparentStraight(px, a) ==
  << px[1], px[2], px[3], ClampByte(Round(a * 255)) >>

FinalizeTransparent(px, a) ==
  IF a < OpacityEps THEN << 0, 0, 0, 0 >>
  ELSE << UnmultiplyChannel(px[1], a), UnmultiplyChannel(px[2], a),
          UnmultiplyChannel(px[3], a), ClampByte(Round(a * 255)) >>

\* Paper mode: out + (paper - 255) * (1 - alpha), clamped.
PaperChannel(byte, pc, invA) ==
  ClampByte(Max(0, Min(255, Round(byte * Scale + pc * invA))))

\* Paper mode as a source-over blend: buffer * alpha + paper * (1 - alpha).
FinalizePaperSourceOver(px, a, paper) ==
  << ClampByte(Round(px[1] * a + paper.r * (Scale - a))),
     ClampByte(Round(px[2] * a + paper.g * (Scale - a))),
     ClampByte(Round(px[3] * a + paper.b * (Scale - a))), px[4] >>

FinalizePaper(px, a, paper) ==
  LET pR == paper.r - 255
      pG == paper.g - 255
      pB == paper.b - 255
      invA == Scale - a
  IN  IF pR = 0 /\ pG = 0 /\ pB = 0 THEN px
      ELSE IF invA < OpacityEps THEN px
      ELSE << PaperChannel(px[1], pR, invA), PaperChannel(px[2], pG, invA),
              PaperChannel(px[3], pB, invA), px[4] >>

\* paperColor ? hexToRgb(paperColor) : DEFAULT_PAPER  (an absent or empty
\* string is the empty sequence).
PaperOf(options) ==
  IF options.paperColor # << >> THEN HexToRgb(options.paperColor) ELSE DEFAULT_PAPER

InkOpacityOf(options) ==
  IF options.inkOpacity = Undefined THEN DEFAULT_INK_OPACITY ELSE options.inkOpacity

\* Phase 2 left out: the buffer is returned as it is.
FinalizePixelSkipped(px, a, options) == px

\* Phase 2 with the paper tint applied before the transparent branch.
FinalizePixelPaperFirst(px, a, options) ==
  IF options.transparentBg
    THEN FinalizeTransparent(FinalizePaper(px, a, PaperOf(options)), a)
  ELSE FinalizePaper(px, a, PaperOf(options))

\* Phase 2 for one pixel.
FinalizePixel(px, a, options) ==
  IF options.transparentBg THEN FinalizeTransparent(px, a)
  ELSE FinalizePaper(px, a, PaperOf(options))

----------------------------------------------------------------------------
(* Inputs of the model *)

\* Ink colours as "#RRGGBB" digit sequences.
HexBlack == << 0, 0, 0, 0, 0, 0 >>
HexGray == << 8, 0, 8, 0, 8, 0 >>
HexCyan == << 0, 0, 15, 15, 15, 15 >>
HexRed == << 15, 15, 0, 0, 0, 0 >>
HexWhite == << 15, 15, 15, 15, 15, 15 >>

\* All sequences over S of length at most n.
RECURSIVE SeqsUpTo(_, _)
SeqsUpTo(S, n) ==
  IF n = 0 THEN { << >> }
  ELSE LET shorter == SeqsUpTo(S, n - 1)
       IN  shorter \cup { Append(q, x) : q \in { t \in shorter : Len(t) = n - 1 }, x \in S }

\* The permutations of 1..n, as sequences.
Perms(n) == { f \in [1..n -> 1..n] : \A a, b \in 1..n : f[a] = f[b] => a = b }

\* The list whose k-th element is q[perm[k]].
Permute(q, perm) == [k \in 1..Len(q) |-> q[perm[k]]]

\* RGBA pixels handed to decomposeColors: opaque, translucent, and around the
\* alpha cutoff (alpha bytes 0, 2 and 3).
DecompPixels ==
  { << 128, 128, 128, 255 >>, << 100, 50, 200, 255 >>, << 0, 0, 0, 255 >>,
    << 255, 255, 255, 255 >>, << 10, 20, 30, 0 >>, << 0, 0, 0, 2 >>,
    << 0, 0, 0, 3 >>, << 0, 128, 255, 128 >> }

\* Inks handed to decomposeColors: black and gray are collinear, cyan and red
\* orthogonal, white equals the basis.
DecompInks ==
  { HexToRgb(h) : h \in { HexBlack, HexGray, HexCyan, HexRed, HexWhite } }

\* The values Math.random() takes in the model: the ends and the middle of [0, 1).
RandomValues == { 0, Scale \div 2, Scale - 1 }

PixelCount == Width * Height

\* Pixels of the source images: opaque black, fully transparent, alpha byte 2,
\* and a translucent colour.
PxBlack == << 0, 0, 0, 255 >>
PxClear == << 10, 20, 30, 0 >>
PxFaint == << 0, 0, 0, 2 >>
PxTranslucent == << 0, 128, 255, 128 >>

ImagePixels == { PxBlack, PxClear, PxFaint, PxTranslucent }

\* The image whose pixel (1, 1) is a and whose other pixels are b.
Image(a, b) == [p \in 1..PixelCount |-> IF p = Width + 2 THEN a ELSE b]

Images == { Image(a, b) : a \in ImagePixels, b \in { PxBlack, PxClear } }

\* The inks of the pipeline: black and white with the default screen angle,
\* cyan with an explicit angle of 0.
StencilColors ==
  { [color |-> HexBlack, angle |-> Undefined],
    [color |-> HexCyan, angle |-> 0],
    [color |-> HexWhite, angle |-> Undefined] }

\* The options all inputs start from: FM screen, dot size 2, no randomness.
BaseOptions ==
  [ colors |-> << >>, dotSize |-> 2 * Scale, misregistration |-> 0, grain |-> 0,
    density |-> Undefined, inkOpacity |-> Undefined, paperColor |-> << >>,
    halftoneMode |-> "fm", colorMode |-> "natural", noise |-> 0,
    transparentBg |-> FALSE, invert |-> FALSE ]

\* Options without randomness: every combination of the alternatives below.
PlainOptions ==
  { [ BaseOptions EXCEPT !.halftoneMode = h[1], !.dotSize = h[2], !.density = dn,
        !.inkOpacity = io, !.paperColor = pp, !.colorMode = cm, !.noise = nz,
        !.transparentBg = tb, !.invert = iv ] :
      h \in { << "fm", 2 * Scale >>, << "fm", Scale >>, << "am", Scale \div 2 >> },
      dn \in { Undefined, 2 * Scale },
      io \in { Undefined, Scale, Scale \div 2 },
      pp \in { << >>, HexWhite, HexBlack },
      cm \in { "natural", "bold" },
      nz \in { 0, Scale \div 2 },
      tb \in BOOLEAN,
      iv \in BOOLEAN }

Differs(a, b) == IF a = b THEN 0 ELSE 1

\* In how many settings an options record differs from BaseOptions.
Deviations(o) ==
  Differs(<< o.halftoneMode, o.dotSize >>, << BaseOptions.halftoneMode, BaseOptions.dotSize >>)
    + Differs(o.density, BaseOptions.density)
    + Differs(o.inkOpacity, BaseOptions.inkOpacity)
    + Differs(o.paperColor, BaseOptions.paperColor)
    + Differs(o.colorMode, BaseOptions.colorMode)
    + Differs(o.noise, BaseOptions.noise)
    + Differs(o.transparentBg, BaseOptions.transparentBg)
    + Differs(o.invert, BaseOptions.invert)

\* The options records of the inputs without randomness: at most one setting
\* differs from BaseOptions; or two, when they include transparentBg or
\* inkOpacity 1, or are invert and bold; or three, when they are the AM screen,
\* inkOpacity 1 and either transparentBg or a black paper; or they are
\* inkOpacity 1, density 2 and a white paper with any screen and nothing else.
Chosen(o) ==
  \/ Deviations(o) <= 1
  \/ /\ Deviations(o) = 2
     /\ \/ o.transparentBg
        \/ o.inkOpacity = Scale
        \/ o.invert /\ o.colorMode = "bold"
  \/ /\ Deviations(o) = 3
     /\ o.halftoneMode = "am"
     /\ o.inkOpacity = Scale
     /\ o.transparentBg \/ o.paperColor = HexBlack
  \/ /\ o.inkOpacity = Scale
     /\ o.density = 2 * Scale
     /\ o.paperColor = HexWhite
     /\ o.colorMode = "natural"
     /\ o.noise = 0
     /\ ~o.transparentBg
     /\ ~o.invert

\* Inputs without randomness: any image, any ink list, chosen options.
PlainInputs ==
  { [ data |-> img, options |-> [o EXCEPT !.colors = cs] ] :
      img \in Images,
      cs \in SeqsUpTo(StencilColors, MaxInks),
      o \in { q \in PlainOptions : Chosen(q) } }

\* Inputs with randomness: misregistration (fractional or whole) or grain, on
\* one black ink.
RandomInputs ==
  { [ data |-> img,
      options |-> [ BaseOptions EXCEPT !.colors = << [color |-> HexBlack, angle |-> Undefined] >>,
                      !.misregistration = mg[1], !.grain = mg[2], !.transparentBg = tb ] ] :
      img \in { Image(PxBlack, PxBlack), Image(PxBlack, PxClear) },
      mg \in { << Scale, 0 >>, << (6 * Scale) \div 10, 0 >>, << 0, Scale \div 2 >> },
      tb \in BOOLEAN }

----------------------------------------------------------------------------
(* State *)

VARIABLES
  \* decomposeColors on one pixel, for an ink list and for a permutation of it
  dStage,       \* "idle", "start", "sweeping", "stored"
  dPixel,       \* the RGBA pixel
  dInks,        \* inkRgbs
  dPerm,        \* a permutation of the ink positions
  dIter,        \* sweeps done
  densities,    \* the densities array for dInks
  densitiesP,   \* the densities array for the permuted list
  \* computeStencil
  pc,           \* "idle", "start", "separated", "layers", "done"
  input,        \* [data, options]: the arguments of the call
  densityMaps,  \* one density map per ink
  out,          \* the RGBA output buffer
  alphaMap,     \* the coverage per pixel
  ci,           \* the index of the next layer (from 0)
  layer,        \* the last layer composited: its halftone map, offsets and opacities
  inkBuf,       \* the accumulation buffer as Phase 2 found it
  run,          \* which call with this input is in progress
  prevOut,      \* what the previous call with this input returned
  randomCalls,  \* how many values Math.random() has handed out so far
  \* the layer loop body on one destination pixel, in list order and permuted
  cStage,       \* "idle", "blending", "blended"
  cLayers,      \* the layers: [opacity, rgb] each
  cInkOpacity,  \* inkOpacity
  cPerm,        \* a permutation of the layer positions
  cK,           \* layers composited
  cOut,         \* the buffer pixel, list order
  cAlpha,       \* the coverage, list order
  cOutP,        \* the buffer pixel, permuted order
  cAlphaP,      \* the coverage, permuted order
  \* applyHalftone called on a density map, on another one, and on the first again
  hStage,       \* "idle", "start", "first", "other", "again", "turned"
  hMap,         \* the density map of the first and third call
  hGiven,       \* that density map as the caller built it
  hOther,       \* the density map of the call in between
  hOptions,     \* [dotSize, angle, density, mode]
  hResult,      \* what the first call returned
  hOtherResult, \* what the call in between returned
  hOtherMode,   \* the mode of the call in between
  hAgain,       \* what the third call returned
  hTurned,      \* what a call with the angle turned by 180 degrees returned
  \* the screen angle of one layer of an ink list
  aStage,       \* "idle", "start", "computed"
  aColors,      \* the ink list
  aIndex,       \* ci
  aAngle,       \* the angle the layer is screened at
  \* the scuff pass of the layer loop on one halftone map
  uStage,       \* "idle", "start", "scuffed", "repeated"
  uMap,         \* the halftone map before the pass
  uCi,          \* the ink's list position
  uDotSize,     \* dotSize
  uNoise,       \* noise
  uAfter,       \* the halftone map after the pass
  uAgain,       \* the map the pass gives when it is repeated on uMap
  \* applyBoldTransform on the densities of one pixel
  bStage,       \* "idle", "start", "suppressed", "done"
  bDensities,   \* the inks' densities at the pixel before the transform
  bMid,         \* the densities after the suppression phase
  bResult,      \* the densities after the transform
  \* what the call before the one in progress was given and what it computed
  prevInput,    \* its arguments
  prevMaps,     \* its density maps
  prevLayer,    \* its last layer
  prevAlpha,    \* its coverage
  \* the StencilCanvas component (part_002)
  mounted,      \* "idle", "mounted" or "unmounted"
  props,        \* the props of the last render
  loaded,       \* the state loaded: << src, width >> of the image data, << >> for null
  error,        \* the state error: << src, width >> of the failed load, << >> for null
  processedKey, \* the state processedKey, << >> for ""
  paramsRef,    \* paramsRef.current
  request,      \* the last loadImage call: << src, width, status >>
  staleLoads,   \* loads in flight whose effect was cleaned up
  timerId,      \* the pending debounce timer: << imageData, paramsKey >> of its closure
  nested,       \* the pending zero-delay timer, likewise
  canvas,       \* what the canvas shows: << imageData, params >>
  changes       \* how often the props changed

dvars == << dStage, dPixel, dInks, dPerm, dIter, densities, densitiesP >>

svars == << pc, input, densityMaps, out, alphaMap, ci, layer, inkBuf, run, prevOut,
           randomCalls >>

cvars == << cStage, cLayers, cInkOpacity, cPerm, cK, cOut, cAlpha, cOutP, cAlphaP >>

hvars == << hStage, hMap, hGiven, hOther, hOptions, hResult, hOtherResult, hOtherMode,
           hAgain, hTurned >>

avars == << aStage, aColors, aIndex, aAngle >>

uvars == << uStage, uMap, uCi, uDotSize, uNoise, uAfter, uAgain >>

bvars == << bStage, bDensities, bMid, bResult >>

pvars == << prevInput, prevMaps, prevLayer, prevAlpha >>

kvars == << mounted, props, loaded, error, processedKey, paramsRef, request, staleLoads, timerId, nested, canvas, changes >>

vars == << dvars, svars, cvars, hvars, avars, uvars, bvars, pvars, kvars >>

\* No decomposition, pipeline or compositor in progress.
DecompIdle ==
  /\ dStage = "idle"
  /\ dPixel = << 0, 0, 0, 0 >>
  /\ dInks = << >>
  /\ dPerm = << >>
  /\ dIter = 0
  /\ densities = << >>
  /\ densitiesP = << >>

NoLayer == [halftone |-> << >>, ox |-> 0, oy |-> 0, opacity |-> << >>]

StencilIdle ==
  /\ pc = "idle"
  /\ input = [data |-> << >>, options |-> BaseOptions]
  /\ densityMaps = << >>
  /\ out = << >>
  /\ alphaMap = << >>
  /\ ci = 0
  /\ layer = NoLayer
  /\ inkBuf = << >>
  /\ run = 0
  /\ prevOut = << >>
  /\ randomCalls = 0

CompositeIdle ==
  /\ cStage = "idle"
  /\ cLayers = << >>
  /\ cInkOpacity = 0
  /\ cPerm = << >>
  /\ cK = 0
  /\ cOut = << >>
  /\ cAlpha = 0
  /\ cOutP = << >>
  /\ cAlphaP = 0

HalftoneIdle ==
  /\ hStage = "idle"
  /\ hMap = << >>
  /\ hGiven = << >>
  /\ hOther = << >>
  /\ hOptions = [dotSize |-> Undefined, angle |-> Undefined, density |-> Undefined,
                 mode |-> "am"]
  /\ hResult = << >>
  /\ hOtherResult = << >>
  /\ hOtherMode = "am"
  /\ hAgain = << >>
  /\ hTurned = << >>

AnglesIdle ==
  /\ aStage = "idle"
  /\ aColors = << >>
  /\ aIndex = 0
  /\ aAngle = 0

CanvasIdle ==
  /\ mounted = "idle"
  /\ props = << >>
  /\ loaded = << >>
  /\ error = << >>
  /\ processedKey = << >>
  /\ paramsRef = << >>
  /\ request = << >>
  /\ staleLoads = {}
  /\ timerId = << >>
  /\ nested = << >>
  /\ canvas = << >>
  /\ changes = 0

RecallIdle ==
  /\ prevInput = << >>
  /\ prevMaps = << >>
  /\ prevLayer = << >>
  /\ prevAlpha = << >>

BoldIdle ==
  /\ bStage = "idle"
  /\ bDensities = << >>
  /\ bMid = << >>
  /\ bResult = << >>

ScuffIdle ==
  /\ uStage = "idle"
  /\ uMap = << >>
  /\ uCi = 0
  /\ uDotSize = 0
  /\ uNoise = 0
  /\ uAfter = << >>
  /\ uAgain = << >>

----------------------------------------------------------------------------
(* decomposeColors, step by step on one pixel *)

DecompInit ==
  /\ StencilIdle
  /\ CompositeIdle
  /\ HalftoneIdle
  /\ AnglesIdle
  /\ ScuffIdle
  /\ BoldIdle
  /\ RecallIdle
  /\ CanvasIdle
  /\ dStage = "start"
  /\ dPixel \in DecompPixels
  /\ dInks \in SeqsUpTo(DecompInks, MaxDecompInks)
  /\ dPerm \in Perms(Len(dInks))
  /\ dIter = 0
  /\ densities = [i \in 1..Len(dInks) |-> 0]
  /\ densitiesP = [i \in 1..Len(dInks) |-> 0]

dInksP == Permute(dInks, dPerm)

\* alpha < 0.01: every map gets 0 at this pixel and the pixel is done.
DecompTransparent ==
  /\ dStage = "start"
  /\ Ratio(dPixel[4], 255) < AlphaCutoff
  /\ dStage' = "stored"
  /\ densities' = [i \in 1..Len(dInks) |-> 0]
  /\ densitiesP' = [i \in 1..Len(dInks) |-> 0]
  /\ UNCHANGED << dPixel, dInks, dPerm, dIter, svars, cvars, hvars, avars, uvars, bvars, pvars, kvars >>

\* The initial projection.
DecompProject ==
  /\ dStage = "start"
  /\ ~(Ratio(dPixel[4], 255) < AlphaCutoff)
  /\ dStage' = "sweeping"
  /\ densities' = InitialProjection(DotInkTarget(dPixel, dInks, WHITE),
                                    DotInkInk(dInks, WHITE))
  /\ densitiesP' = InitialProjection(DotInkTarget(dPixel, dInksP, WHITE),
                                     DotInkInk(dInksP, WHITE))
  /\ UNCHANGED << dPixel, dInks, dPerm, dIter, svars, cvars, hvars, avars, uvars, bvars, pvars, kvars >>

\* One coordinate-descent sweep.
DecompSweep ==
  /\ dStage = "sweeping"
  /\ dIter < MAX_ITER
  /\ dIter' = dIter + 1
  /\ densities' = Sweep(densities, DotInkTarget(dPixel, dInks, WHITE),
                        DotInkInk(dInks, WHITE))
  /\ densitiesP' = Sweep(densitiesP, DotInkTarget(dPixel, dInksP, WHITE),
                         DotInkInk(dInksP, WHITE))
  /\ UNCHANGED << dStage, dPixel, dInks, dPerm, svars, cvars, hvars, avars, uvars, bvars, pvars, kvars >>

\* maps[i][p] = densities[i]
DecompStore ==
  /\ dStage = "sweeping"
  /\ dIter = MAX_ITER
  /\ dStage' = "stored"
  /\ UNCHANGED << dPixel, dInks, dPerm, dIter, densities, densitiesP, svars, cvars, hvars, avars, uvars, bvars, pvars, kvars >>

DecompNext ==
  \/ DecompTransparent
  \/ DecompProject
  \/ DecompSweep
  \/ DecompStore

SpecDecomp == DecompInit /\ [][DecompNext]_vars

----------------------------------------------------------------------------
(* computeStencil, stage by stage *)

colors == input.options.colors

\* The values a Math.random() call can take, {0} standing for no call.
Draws(called) == IF called THEN RandomValues ELSE { 0 }

\* A call of computeStencil(sourceData, options) begins.
StencilStart(inputs) ==
  /\ pc = "start"
  /\ input \in inputs
  /\ densityMaps = << >>
  /\ out = << >>
  /\ alphaMap = << >>
  /\ ci = 0
  /\ layer = NoLayer
  /\ inkBuf = << >>
  /\ run = 1
  /\ prevOut = << >>
  /\ randomCalls = 0

Init ==
  /\ DecompIdle
  /\ CompositeIdle
  /\ HalftoneIdle
  /\ AnglesIdle
  /\ ScuffIdle
  /\ BoldIdle
  /\ RecallIdle
  /\ CanvasIdle
  /\ StencilStart(PlainInputs \cup RandomInputs)

\* Inversion, ink colours, decomposition and the luminance fallback.
\* Phase 0 when the inversion is written into the caller's buffer instead of
\* a copy.
SeparateInPlace ==
  /\ pc = "start"
  /\ pc' = "separated"
  /\ densityMaps' = SeparatedMaps(SourceOf(input.data, input.options), InkRgbs(colors))
  /\ input' = [input EXCEPT !.data = SourceOf(input.data, input.options)]
  /\ UNCHANGED << out, alphaMap, ci, layer, inkBuf, run, prevOut, randomCalls,
                  dvars, cvars, hvars, avars, uvars, bvars, pvars, kvars >>

\* Phase 1 with the decomposition computed against the display paper.
SeparateAgainstPaper ==
  /\ pc = "start"
  /\ pc' = "separated"
  /\ densityMaps' = SeparatedMapsOn(SourceOf(input.data, input.options), InkRgbs(colors),
                                     PaperOf(input.options))
  /\ UNCHANGED << input, out, alphaMap, ci, layer, inkBuf, run, prevOut, randomCalls,
                  dvars, cvars, hvars, avars, uvars, bvars, pvars, kvars >>

Separate ==
  /\ pc = "start"
  /\ pc' = "separated"
  /\ densityMaps' = SeparatedMaps(SourceOf(input.data, input.options), InkRgbs(colors))
  /\ UNCHANGED << input, out, alphaMap, ci, layer, inkBuf, run, prevOut, randomCalls,
                  dvars, cvars, hvars, avars, uvars, bvars, pvars, kvars >>

\* The bold transform when colorMode is "bold", then the white accumulation
\* buffer and the zero coverage map.
Prepare ==
  /\ pc = "separated"
  /\ pc' = "layers"
  /\ densityMaps' = IF input.options.colorMode = "bold"
                      THEN ApplyBoldTransform(densityMaps, PixelCount)
                      ELSE densityMaps
  /\ out' = [p \in 1..PixelCount |-> << 255, 255, 255, 255 >>]
  /\ alphaMap' = [p \in 1..PixelCount |-> 0]
  /\ ci' = 0
  /\ UNCHANGED << input, layer, inkBuf, run, prevOut, randomCalls,
                  dvars, cvars, hvars, avars, uvars, bvars, pvars, kvars >>

\* The halftone map of layer k after the scuff noise.
ScuffedHalftone(maps, options, k) ==
  IF options.noise > 0
    THEN ApplyScuff(LayerHalftone(maps, options, k, Width, Height), Width, k,
                    options.dotSize, options.noise)
    ELSE LayerHalftone(maps, options, k, Width, Height)

\* The inner loops of layer k: offsets, grain, multiply blend.  rx and ry are the
\* draws of the offsets, rg[p] the grain draw at pixel p.  The result is the
\* buffer, the coverage and the layer.
Composite(buffer, coverage, halftoneMap, options, k, rx, ry, rg) ==
  LET rgb == HexToRgb(options.colors[k + 1].color)
      ox == Offset(rx, options.misregistration)
      oy == Offset(ry, options.misregistration)
      opacity == Array([p \in 1..PixelCount |->
                   CompositedOpacity(halftoneMap, p, Width, Height, ox, oy,
                                     options.grain, rg[p])])
  IN  [ out |-> Array([p \in 1..PixelCount |->
                  BlendPixel(buffer[p], opacity[p], rgb, InkOpacityOf(options))]),
        alphaMap |-> Array([p \in 1..PixelCount |->
                       BlendAlpha(coverage[p], opacity[p], InkOpacityOf(options))]),
        layer |-> [halftone |-> halftoneMap, ox |-> ox, oy |-> oy, opacity |-> opacity],
        calls |-> RandomCalls(Width, Height, ox, oy, options) ]

\* One pass of the layer loop with a scuff that is drawn rather than hashed:
\* the layer is either scuffed or left as the screen made it.
LayerDrawnScuff ==
  /\ pc = "layers"
  /\ ci < Len(colors)
  /\ \E halftoneMap \in { ScuffedHalftone(densityMaps, input.options, ci),
                          LayerHalftone(densityMaps, input.options, ci, Width, Height) } :
     \E rx, ry \in Draws(input.options.misregistration > 0) :
     \E rg \in [1..PixelCount -> Draws(input.options.grain > 0)] :
     \E after \in { Composite(out, alphaMap, halftoneMap, input.options, ci, rx, ry, rg) } :
       /\ out' = after.out
       /\ alphaMap' = after.alphaMap
       /\ layer' = after.layer
       /\ randomCalls' = randomCalls + after.calls
  /\ ci' = ci + 1
  /\ UNCHANGED << pc, input, densityMaps, inkBuf, run, prevOut,
                  dvars, cvars, hvars, avars, uvars, bvars, pvars, kvars >>

\* One pass of the layer loop.
Layer ==
  /\ pc = "layers"
  /\ ci < Len(colors)
  /\ \E halftoneMap \in { ScuffedHalftone(densityMaps, input.options, ci) } :
     \E rx, ry \in Draws(input.options.misregistration > 0) :
     \E rg \in [1..PixelCount -> Draws(input.options.grain > 0)] :
     \E after \in { Composite(out, alphaMap, halftoneMap, input.options, ci, rx, ry, rg) } :
       /\ out' = after.out
       /\ alphaMap' = after.alphaMap
       /\ layer' = after.layer
       /\ randomCalls' = randomCalls + after.calls
  /\ ci' = ci + 1
  /\ UNCHANGED << pc, input, densityMaps, inkBuf, run, prevOut,
                  dvars, cvars, hvars, avars, uvars, bvars, pvars, kvars >>

\* Phase 2: the buffer becomes the returned pixels.
Finalize ==
  /\ pc = "layers"
  /\ ci = Len(colors)
  /\ pc' = "done"
  /\ inkBuf' = out
  /\ out' = [p \in 1..PixelCount |-> FinalizePixel(out[p], alphaMap[p], input.options)]
  /\ UNCHANGED << input, densityMaps, alphaMap, ci, layer, run, prevOut, randomCalls,
                  dvars, cvars, hvars, avars, uvars, bvars, pvars, kvars >>

Next ==
  \/ Separate
  \/ Prepare
  \/ Layer
  \/ Finalize

Spec == Init /\ [][Next]_vars

----------------------------------------------------------------------------
(* Two calls of computeStencil with the same arguments *)

MaxRuns == 2

RunsInit ==
  /\ DecompIdle
  /\ CompositeIdle
  /\ HalftoneIdle
  /\ AnglesIdle
  /\ ScuffIdle
  /\ BoldIdle
  /\ RecallIdle
  /\ CanvasIdle
  /\ StencilStart(RandomInputs)

\* The caller keeps what the call returned and calls again with the same arguments.
Rerun ==
  /\ pc = "done"
  /\ run < MaxRuns
  /\ pc' = "start"
  /\ run' = run + 1
  /\ prevOut' = out
  /\ densityMaps' = << >>
  /\ out' = << >>
  /\ alphaMap' = << >>
  /\ ci' = 0
  /\ layer' = NoLayer
  /\ inkBuf' = << >>
  /\ UNCHANGED << input, randomCalls, dvars, cvars, hvars, avars, uvars, bvars, pvars, kvars >>

RunsNext ==
  \/ Separate
  \/ Prepare
  \/ Layer
  \/ Finalize
  \/ Rerun

SpecRuns == RunsInit /\ [][RunsNext]_vars

----------------------------------------------------------------------------
(* The layer loop on one destination pixel, in list order and in permuted order *)

MaxLayers == 3

\* The opacities a layer can have at the pixel: none, positive below the
\* cutoff, a half, 0.7.
LayerOpacities == { 0, (3 * Scale) \div 1000, Scale \div 2, (7 * Scale) \div 10 }

LayerInks == { HexToRgb(HexBlack), HexToRgb(HexGray) }

LayerValues == { [opacity |-> o, rgb |-> k] : o \in LayerOpacities, k \in LayerInks }

CompositeInit ==
  /\ DecompIdle
  /\ StencilIdle
  /\ HalftoneIdle
  /\ AnglesIdle
  /\ ScuffIdle
  /\ BoldIdle
  /\ RecallIdle
  /\ CanvasIdle
  /\ cStage = "blending"
  /\ cLayers \in SeqsUpTo(LayerValues, MaxLayers)
  /\ cInkOpacity \in { Scale, DEFAULT_INK_OPACITY }
  /\ cPerm \in Perms(Len(cLayers))
  /\ cK = 0
  /\ cOut = << 255, 255, 255, 255 >>
  /\ cAlpha = 0
  /\ cOutP = << 255, 255, 255, 255 >>
  /\ cAlphaP = 0

\* The next layer of each order is blended into its buffer and coverage.
CompositeLayer ==
  /\ cStage = "blending"
  /\ cK < Len(cLayers)
  /\ cK' = cK + 1
  /\ cOut' = BlendPixel(cOut, cLayers[cK + 1].opacity, cLayers[cK + 1].rgb, cInkOpacity)
  /\ cAlpha' = BlendAlpha(cAlpha, cLayers[cK + 1].opacity, cInkOpacity)
  /\ cOutP' = BlendPixel(cOutP, cLayers[cPerm[cK + 1]].opacity,
                         cLayers[cPerm[cK + 1]].rgb, cInkOpacity)
  /\ cAlphaP' = BlendAlpha(cAlphaP, cLayers[cPerm[cK + 1]].opacity, cInkOpacity)
  /\ UNCHANGED << cStage, cLayers, cInkOpacity, cPerm, dvars, svars, hvars, avars, uvars, bvars, pvars, kvars >>

\* The loop over the layers ends.
CompositeEnd ==
  /\ cStage = "blending"
  /\ cK = Len(cLayers)
  /\ cStage' = "blended"
  /\ UNCHANGED << cLayers, cInkOpacity, cPerm, cK, cOut, cAlpha, cOutP, cAlphaP, dvars, svars, hvars, avars, uvars, bvars, pvars, kvars >>

CompositeNext ==
  \/ CompositeLayer
  \/ CompositeEnd

SpecComposite == CompositeInit /\ [][CompositeNext]_vars

----------------------------------------------------------------------------
(* Properties of computeStencil's output *)

\* The source pixels decomposition and the fallback read.
source == SourceOf(input.data, input.options)

\* The paper colour as an opaque pixel.
PaperPixel == << PaperOf(input.options).r, PaperOf(input.options).g,
                 PaperOf(input.options).b, 255 >>

\* C1: with an empty ink list the call returns a uniform fill: every pixel is
\* the configured (or default) paper colour with alpha 255 in paper mode, and
\* (0, 0, 0, 0) in transparent mode, whatever the image.
C1_EmptyInkListUniformFill ==
  (pc = "done" /\ Len(colors) = 0) =>
    \A p \in 1..PixelCount :
      out[p] = IF input.options.transparentBg THEN << 0, 0, 0, 0 >> ELSE PaperPixel

\* A call without inks on a black paper has returned.
C1_Witness ==
  /\ pc = "done"
  /\ Len(colors) = 0
  /\ ~input.options.transparentBg
  /\ input.options.paperColor = HexBlack
  /\ input.data[1] = PxBlack

\* C2: two calls with the same image and options return the same bytes, also
\* with misregistration > 0 or grain > 0.
C2_RunsIdentical ==
  (run = 2 /\ pc = "done") => out = prevOut

\* C3: decomposeColors on a permuted ink list yields the same permutation of
\* the densities: no density value changes.
C3_PermutationInvariant ==
  dStage = "stored" =>
    \A k \in 1..Len(dInks) : densitiesP[k] = densities[dPerm[k]]

\* C4: blending the same layers in another order gives the same buffer colour
\* at the pixel.
C4_CompositingCommutes ==
  cStage = "blended" => cOut = cOutP

\* C5: every density of decomposeColors is a number in [0, 1], after the
\* initial projection and after each sweep, for any ink list (inks equal to
\* the basis, duplicate and collinear inks included).
C5_DensitiesInUnitInterval ==
  \A k \in 1..Len(dInks) :
    /\ densities[k] \in 0..Scale
    /\ densitiesP[k] \in 0..Scale

\* All sweeps are done on an opaque pixel for two equal inks, the basis among them.
C5_Witness ==
  /\ dStage = "sweeping"
  /\ dIter = MAX_ITER
  /\ dPixel[4] = 255
  /\ Len(dInks) = 2
  /\ dInks[1] = dInks[2]
  /\ dInks[1] = WHITE

\* C6: a source pixel with alpha below 0.01 has density 0 for every ink in the
\* density maps the pipeline halftones, luminance-fallback inks included.
C6_FaintPixelsNoDensity ==
  pc \in { "separated", "layers", "done" } =>
    \A p \in 1..PixelCount :
      Ratio(source[p][4], 255) < AlphaCutoff =>
        \A i \in 1..Len(colors) : densityMaps[i][p] = 0

\* C7: a pixel whose source alpha byte is 0 has density exactly 0 for every
\* ink, whatever its RGB, the inks, invert and the separation mode.
C7_ClearPixelsNoDensity ==
  pc \in { "separated", "layers", "done" } =>
    \A p \in 1..PixelCount :
      input.data[p][4] = 0 =>
        \A i \in 1..Len(colors) : densityMaps[i][p] = 0

\* Bold separation of an inverted image with a clear pixel, for a decomposed
\* ink and a luminance-fallback ink, has been done.
C7_Witness ==
  /\ pc = "layers"
  /\ input.options.invert
  /\ input.options.colorMode = "bold"
  /\ \E p \in 1..PixelCount : input.data[p] = PxClear
  /\ \E p \in 1..PixelCount : input.data[p][4] = 255
  /\ \E i, j \in 1..Len(colors) :
       colors[i].color = HexWhite /\ colors[j].color = HexBlack

\* The positions in the ink list of the inks equal to the decomposition basis.
BasisInks == { i \in 1..Len(colors) : InkRgbs(colors)[i] = WHITE }

\* C8 as stated: an ink equal to the basis has density 0 at every pixel of the
\* pipeline's density map for it.
C8_BasisInkZeroInPipeline ==
  pc = "separated" =>
    \A i \in BasisInks : \A p \in 1..PixelCount : densityMaps[i][p] = 0

\* C8, amended: decomposeColors gives an ink equal to the basis density 0 at
\* every pixel; computeStencil does not use that map: the pipeline's density
\* map of such an ink is (1 - luminance) * alpha of the source pixel.
C8_BasisInkZeroInDecomposition ==
  (pc = "separated" /\ BasisInks # { }) =>
    \A i \in BasisInks : \A p \in 1..PixelCount :
      /\ DecomposeColors(source, InkRgbs(colors), WHITE)[i][p] = 0
      /\ densityMaps[i][p] =
           Mul(Scale - Luminance709(source[p]), Ratio(source[p][4], 255))

\* A white ink next to a black one got a positive density at an opaque pixel.
C8_Witness ==
  /\ pc = "separated"
  /\ Len(colors) = 2
  /\ \E i \in BasisInks : \E p \in 1..PixelCount :
       source[p][4] = 255 /\ densityMaps[i][p] > 0
  /\ \E j \in 1..Len(colors) : colors[j].color = HexBlack

\* C9: in transparent mode a pixel with coverage below 0.004 is returned as
\* (0, 0, 0, 0); any other pixel has alpha round(255 * coverage); and a pixel
\* that one ink covers with opacity 1 under inkOpacity 1 is returned with
\* alpha 255 and the ink's RGB.
C9_TransparentFinalisation ==
  (pc = "done" /\ input.options.transparentBg) =>
    \A p \in 1..PixelCount :
      /\ alphaMap[p] < OpacityEps => out[p] = << 0, 0, 0, 0 >>
      /\ alphaMap[p] >= OpacityEps => out[p][4] = Round(255 * alphaMap[p])
      /\ ( /\ Len(colors) = 1
           /\ InkOpacityOf(input.options) = Scale
           /\ layer.opacity[p] = Scale )
         => out[p] = << InkRgbs(colors)[1].r, InkRgbs(colors)[1].g,
                        InkRgbs(colors)[1].b, 255 >>

\* A transparent-mode call with one cyan ink under inkOpacity 1 has returned:
\* one pixel fully covered, one without ink, one partly covered.
C9_Witness ==
  /\ pc = "done"
  /\ input.options.transparentBg
  /\ Len(colors) = 1
  /\ colors[1].color = HexCyan
  /\ input.options.inkOpacity = Scale
  /\ \E p \in 1..PixelCount : layer.opacity[p] = Scale
  /\ \E p \in 1..PixelCount : alphaMap[p] < OpacityEps
  /\ \E p \in 1..PixelCount : alphaMap[p] >= OpacityEps /\ alphaMap[p] < Scale

\* The paper colour's channel k (1, 2, 3) less 255.
PaperShift(k) ==
  << PaperOf(input.options).r, PaperOf(input.options).g, PaperOf(input.options).b >>[k] - 255

\* C10: in paper mode each channel of a pixel is the accumulation value plus
\* (paper - 255) * (1 - coverage), rounded and clamped, and the accumulation
\* value itself once 1 - coverage is below 0.004: a pixel with coverage 0 has
\* the paper colour, a pixel with coverage 1 the accumulation value, and on
\* white paper every pixel has the accumulation value.
C10_PaperFinalisation ==
  (pc = "done" /\ ~input.options.transparentBg) =>
    \A p \in 1..PixelCount :
      /\ alphaMap[p] = 0 => out[p] = PaperPixel
      /\ alphaMap[p] = Scale => out[p] = inkBuf[p]
      /\ PaperOf(input.options) = WHITE => out[p] = inkBuf[p]
      /\ out[p][4] = 255
      /\ \A k \in 1..3 :
           out[p][k] =
             IF Scale - alphaMap[p] < OpacityEps THEN inkBuf[p][k]
             ELSE Max(0, Min(255, Round(inkBuf[p][k] * Scale
                                          + PaperShift(k) * (Scale - alphaMap[p]))))

\* A paper-mode call on black paper has returned: one pixel with coverage 1
\* and ink on it, one with coverage 0, one partly covered.
C10_Witness ==
  /\ pc = "done"
  /\ ~input.options.transparentBg
  /\ input.options.paperColor = HexBlack
  /\ \E p \in 1..PixelCount : alphaMap[p] = Scale /\ inkBuf[p] # << 255, 255, 255, 255 >>
  /\ \E p \in 1..PixelCount : alphaMap[p] = 0
  /\ \E p \in 1..PixelCount : alphaMap[p] > 0 /\ alphaMap[p] < Scale

----------------------------------------------------------------------------
(* applyHalftone called three times: on a density map, on another density   *)
(* map, and on the first one again                                          *)

HWidth == 3

HHeight == 3

HPixelCount == HWidth * HHeight

DensityValues == { 0, (3 * Scale) \div 10, (6 * Scale) \div 10, Scale }

\* The density map with density a at the pixels (1, 1) and (2, 0), c at pixel
\* (2, 2) and b at every other pixel.
HMap(a, b, c) ==
  Array([p \in 1..HPixelCount |->
    IF p = HWidth + 2 \/ p = 3 THEN a ELSE IF p = 2 * HWidth + 3 THEN c ELSE b])

HMaps == { HMap(a, b, c) : a \in DensityValues, b \in { 0, (3 * Scale) \div 10 },
                           c \in { 0, (6 * Scale) \div 10, Scale } }

\* The next larger density value.
Raised(d) == IF d = Scale THEN Scale ELSE CHOOSE v \in DensityValues :
               /\ v > d
               /\ \A u \in DensityValues : u > d => v <= u

\* The maps of the call in between: no ink, full ink, and the first map with
\* every density raised.
OtherMaps(map) ==
  { Array([p \in 1..HPixelCount |-> 0]), Array([p \in 1..HPixelCount |-> Scale]),
    Array([p \in 1..HPixelCount |-> Raised(map[p])]) }

HalftoneOptions ==
  [ dotSize : { Scale, 2 * Scale }, angle : { 0, 45 },
    density : { Undefined, 2 * Scale }, mode : { "am", "fm" } ]

HalftoneInit ==
  /\ DecompIdle
  /\ StencilIdle
  /\ CompositeIdle
  /\ AnglesIdle
  /\ ScuffIdle
  /\ BoldIdle
  /\ RecallIdle
  /\ CanvasIdle
  /\ hStage = "start"
  /\ hMap \in HMaps
  /\ hGiven = hMap
  /\ hOther \in OtherMaps(hMap)
  /\ hOptions \in HalftoneOptions
  /\ hResult = << >>
  /\ hOtherResult = << >>
  /\ hOtherMode = "am"
  /\ hAgain = << >>
  /\ hTurned = << >>

\* result = applyHalftone(densityMap, width, height, options)
HalftoneFirst ==
  /\ hStage = "start"
  /\ hStage' = "first"
  /\ hResult' = ApplyHalftone(hMap, HWidth, HHeight, hOptions)
  /\ UNCHANGED << hMap, hGiven, hOther, hOptions, hOtherResult, hOtherMode, hAgain, hTurned,
                  dvars, svars, cvars, avars, uvars, bvars, pvars, kvars >>

\* A call on the other density map, in either mode.
HalftoneOther ==
  /\ hStage = "first"
  /\ hStage' = "other"
  /\ \E mode \in { "am", "fm" } :
       /\ hOtherMode' = mode
       /\ hOtherResult' = ApplyHalftone(hOther, HWidth, HHeight,
                                        [hOptions EXCEPT !.mode = mode])
  /\ UNCHANGED << hMap, hGiven, hOther, hOptions, hResult, hAgain, hTurned,
                  dvars, svars, cvars, avars, uvars, bvars, pvars, kvars >>

\* The pointwise maximum of two opacity maps.
MaxMap(a, b) == Array([p \in 1..Len(a) |-> Max(a[p], b[p])])

\* The third call when the result buffer is kept between calls and the
\* maximum is accumulated into what the call before left there.
HalftoneAgainKeptBuffer ==
  /\ hStage \in { "first", "other" }
  /\ hStage' = "again"
  /\ hAgain' = IF hOtherResult = << >>
                 THEN ApplyHalftone(hMap, HWidth, HHeight, hOptions)
                 ELSE MaxMap(ApplyHalftone(hMap, HWidth, HHeight, hOptions), hOtherResult)
  /\ UNCHANGED << hMap, hGiven, hOther, hOptions, hResult, hOtherResult, hOtherMode,
                  hTurned,
                  dvars, svars, cvars, avars, uvars, bvars, pvars, kvars >>

\* The call on the first density map again, with or without a call in between.
HalftoneAgain ==
  /\ hStage \in { "first", "other" }
  /\ hStage' = "again"
  /\ hAgain' = ApplyHalftone(hMap, HWidth, HHeight, hOptions)
  /\ UNCHANGED << hMap, hGiven, hOther, hOptions, hResult, hOtherResult, hOtherMode,
                  hTurned,
                  dvars, svars, cvars, avars, uvars, bvars, pvars, kvars >>

\* The call on the first density map with the screen turned by 180 degrees.
HalftoneTurned ==
  /\ hStage = "first"
  /\ hStage' = "turned"
  /\ hTurned' = ApplyHalftone(hMap, HWidth, HHeight,
                              [hOptions EXCEPT !.angle = @ + 180])
  /\ UNCHANGED << hMap, hGiven, hOther, hOptions, hResult, hOtherResult, hOtherMode,
                  hAgain, dvars, svars, cvars, avars, uvars, bvars, pvars, kvars >>

HalftoneNext == HalftoneFirst \/ HalftoneOther \/ HalftoneAgain \/ HalftoneTurned

SpecHalftone == HalftoneInit /\ [][HalftoneNext]_vars

----------------------------------------------------------------------------
(* Properties of applyHalftone *)

----------------------------------------------------------------------------
(* Properties of computeStencil's state and arguments *)

\* C12: computeStencil keeps no state between invocations and touches no shared
\* mutable data: an invocation begins with the generator behind Math.random()
\* where the invocation before it found it, so that what it draws, and with it
\* its output, does not depend on the invocations run before or in between.
C12_NoSharedState == pc = "start" => randomCalls = 0

InUnit(v) == v \in 0..Scale

\* C14: every density (after the decomposition and the luminance fallback, and
\* after the bold transform) and every opacity (after the halftone, after the
\* scuff pass, and after the grain) is a number of [0, 1], every coverage is,
\* and every byte of the buffer and of the output is an integer of [0, 255].
C14_ValuesInRange ==
  /\ \A i \in 1..Len(densityMaps) : \A p \in 1..PixelCount : InUnit(densityMaps[i][p])
  /\ ci > 0 =>
       LET halftoneMap == LayerHalftone(densityMaps, input.options, ci - 1, Width, Height)
       IN  \A p \in 1..PixelCount :
             /\ InUnit(halftoneMap[p])
             /\ InUnit(layer.halftone[p])
             /\ InUnit(layer.opacity[p])
  /\ \A p \in 1..Len(alphaMap) : InUnit(alphaMap[p])
  /\ \A p \in 1..Len(out) : \A k \in 1..4 : out[p][k] \in 0..255
  /\ \A p \in 1..Len(inkBuf) : \A k \in 1..4 : inkBuf[p][k] \in 0..255

\* A layer has been composited with grain whose draw took one opacity to the
\* lower clamp and another to the upper one.
C14_Witness ==
  /\ ci > 0
  /\ input.options.grain > 0
  /\ \E p, q \in 1..PixelCount :
       /\ layer.halftone[p] > 0 /\ layer.opacity[p] = 0
       /\ layer.halftone[q] > Scale \div 2 /\ layer.opacity[q] = Scale

\* C15: the one misregistration offset (ox, oy) of a layer has each component
\* in [-m, m], m being the misregistration option, for every m >= 0, a
\* fractional one such as 0.6 included; and m = 0 gives the offset (0, 0).
C15_OffsetWithinMisregistration ==
  ci > 0 =>
    /\ Abs(layer.ox) * Scale <= input.options.misregistration
    /\ Abs(layer.oy) * Scale <= input.options.misregistration

\* The source coordinate of destination pixel p under the offset (ox, oy) lies
\* outside the image.
SourceOutside(p, ox, oy) ==
  \/ ((p - 1) % Width) - ox \notin 0..(Width - 1)
  \/ ((p - 1) \div Width) - oy \notin 0..(Height - 1)

\* The pixel a source coordinate outside the image would name if the image
\* repeated.
Wrapped(p, ox, oy) ==
  ((((p - 1) \div Width) - oy) % Height) * Width + ((((p - 1) % Width) - ox) % Width) + 1

\* C16: in every pass of the layer loop a destination pixel whose source
\* coordinate under the layer's offset lies outside the image gets opacity 0
\* from the layer, and its colour and its coverage are after the pass what
\* they were before it: the layer does not wrap around.
C16_OutOfBoundsUntouched ==
  [][ (pc = "layers" /\ ci' = ci + 1) =>
        \A p \in 1..PixelCount :
          SourceOutside(p, layer'.ox, layer'.oy) =>
            /\ layer'.opacity[p] = 0
            /\ out'[p] = out[p]
            /\ alphaMap'[p] = alphaMap[p] ]_vars

\* The first layer has been composited with an offset that puts a destination
\* pixel's source outside the image where the repeated image would have ink:
\* the pixel is still white and uncovered, while another pixel took ink.
C16_Witness ==
  /\ ci = 1
  /\ \E p, q \in 1..PixelCount :
       /\ SourceOutside(p, layer.ox, layer.oy)
       /\ layer.halftone[Wrapped(p, layer.ox, layer.oy)] > Scale \div 2
       /\ layer.opacity[p] = 0
       /\ out[p] = << 255, 255, 255, 255 >>
       /\ alphaMap[p] = 0
       /\ alphaMap[q] > 0

----------------------------------------------------------------------------
(* Properties of the two screens *)

\* The arguments of the first call: the pixel's coordinates, the density
\* scale, and the pixel's coordinates in the rotated grid.
HX(p) == (p - 1) % HWidth

HY(p) == (p - 1) \div HWidth

HScale == IF hOptions.density = Undefined THEN Scale ELSE hOptions.density

HRotX(p) == HX(p) * Cos(hOptions.angle) + HY(p) * Sin(hOptions.angle)

HRotY(p) == (-HX(p)) * Sin(hOptions.angle) + HY(p) * Cos(hOptions.angle)

\* The density of pixel p, scaled and clamped to 1.
HScaledDensity(p) == Min(Mul(hMap[p], HScale), Scale)

\* Pixel p lies exactly on the centre of a cell of the AM grid.
OnAMDotCentre(p) ==
  LET cellSize == hOptions.dotSize + 2 * Scale
  IN  /\ 2 * (HRotX(p) % cellSize) = cellSize
      /\ 2 * (HRotY(p) % cellSize) = cellSize
      /\ Round(Mul(HRotX(p), Cos(hOptions.angle)) - Mul(HRotY(p), Sin(hOptions.angle)))
           = HX(p)
      /\ Round(Mul(HRotX(p), Sin(hOptions.angle)) + Mul(HRotY(p), Cos(hOptions.angle)))
           = HY(p)

\* The opacities the nine candidate dots around pixel p's cell give pixel p,
\* each dot of radius sqrt(density) * 0.5 * (dotSize + 2).
AMCandidates(p) ==
  LET cellSize == hOptions.dotSize + 2 * Scale
  IN  { AMDot(hMap, HWidth, HHeight, HRotX(p), HRotY(p),
              (HRotX(p) \div cellSize) + dx, (HRotY(p) \div cellSize) + dy,
              cellSize, Cos(hOptions.angle), Sin(hOptions.angle), HScale) :
          dx \in -1..1, dy \in -1..1 }

\* C17: in AM mode a density map that is 0 everywhere gives an opacity map
\* that is 0 everywhere; a pixel exactly on a dot centre whose scaled density
\* is 1 gets opacity 1; and every pixel's opacity is the largest of the
\* opacities of the candidate dots of the 3 x 3 cells around its cell.
C17_AMScreen ==
  (hStage # "start" /\ hOptions.mode = "am") =>
    /\ (\A p \in 1..HPixelCount : hMap[p] = 0) => \A p \in 1..HPixelCount : hResult[p] = 0
    /\ \A p \in 1..HPixelCount :
         (OnAMDotCentre(p) /\ HScaledDensity(p) = Scale) => hResult[p] = Scale
    /\ \A p \in 1..HPixelCount :
         /\ \A v \in AMCandidates(p) : v <= hResult[p]
         /\ hResult[p] \in AMCandidates(p) \cup { 0 }

\* The AM screen has drawn a full dot whose centre is a pixel, by a density
\* below 1 that the density scale takes to 1, and the dot's edge covers
\* another pixel in part.
C17_Witness ==
  /\ hStage # "start"
  /\ hOptions.mode = "am"
  /\ \E p, q \in 1..HPixelCount :
       /\ OnAMDotCentre(p)
       /\ hMap[p] < Scale
       /\ HScaledDensity(p) = Scale
       /\ hResult[p] = Scale
       /\ hResult[q] > 0 /\ hResult[q] < Scale

\* The cells of the FM grid that applyFMHalftone examines for pixel p.
FMCells(p) ==
  LET cellSize == hOptions.dotSize
      edge == Max(Scale \div 2, Div(Scale \div 2, hOptions.dotSize))
      searchRange == Ceil(Div(hOptions.dotSize \div 2 + edge, cellSize))
      gx == HRotX(p) \div cellSize
      gy == HRotY(p) \div cellSize
  IN  { << gx + dx, gy + dy >> :
          dx \in (-searchRange)..searchRange, dy \in (-searchRange)..searchRange }

\* min(density * scale, 1) of a density map at the centre of cell c, 0 when
\* the centre falls outside the image.
FMCellDensity(map, c) ==
  LET dotRx == DotCentre(c[1], hOptions.dotSize)
      dotRy == DotCentre(c[2], hOptions.dotSize)
  IN  SampleDensity(map, HWidth, HHeight,
        Round(Mul(dotRx, Cos(hOptions.angle)) - Mul(dotRy, Sin(hOptions.angle))),
        Round(Mul(dotRx, Sin(hOptions.angle)) + Mul(dotRy, Cos(hOptions.angle))),
        HScale)

\* A dot is present at cell c: the density at its centre is above its threshold.
FMFires(map, c) == FMCellDensity(map, c) > CellHash(c[1], c[2])

\* The distance of pixel p from the centre of cell c.
FMDist(p, c) ==
  LET distX == HRotX(p) - DotCentre(c[1], hOptions.dotSize)
      distY == HRotY(p) - DotCentre(c[2], hOptions.dotSize)
  IN  Sqrt(Mul(distX, distX) + Mul(distY, distY))

\* What cell c gives pixel p: nothing when no dot is present or the pixel is
\* beyond the dot's edge, and otherwise the anti-aliased opacity of a dot of
\* radius dotSize / 2, with the sub-pixel blend when that radius is below 1.
FMCandidate(p, c) ==
  LET dotRadius == hOptions.dotSize \div 2
      edge == Max(Scale \div 2, Div(Scale \div 2, hOptions.dotSize))
      dist == FMDist(p, c)
      d == FMCellDensity(hMap, c)
      opacity == DotOpacity(dist, dotRadius, edge)
  IN  IF dist > dotRadius + edge \/ ~(d > CellHash(c[1], c[2])) THEN 0
      ELSE IF dotRadius < Scale
             THEN Mul(opacity, Scale - Mul(Scale - dotRadius, Scale - Sqrt(d)))
             ELSE opacity

\* C18: in FM mode a dot is present at a cell exactly when min(density * scale,
\* 1) at the cell's centre (0 outside the image) is above the cell's hash
\* threshold, which is in [0, 1), and a present dot has radius dotSize / 2
\* whatever the density: every pixel's opacity is the largest opacity the
\* present dots around it give it.  Hence a density map of zeros gives opacity
\* 0 everywhere, every cell whose scaled density is 1 has a dot, and a cell
\* that has a dot still has one when the density is raised.
C18_FMScreen ==
  (hStage # "start" /\ hOptions.mode = "fm") =>
    /\ \A p \in 1..HPixelCount :
         /\ hResult[p] = MaxOf({ 0 } \cup { FMCandidate(p, c) : c \in FMCells(p) })
         /\ \A c \in FMCells(p) :
              /\ CellHash(c[1], c[2]) \in 0..(Scale - 1)
              /\ FMCellDensity(hMap, c) = Scale => FMFires(hMap, c)
    /\ (\A p \in 1..HPixelCount : hMap[p] = 0) => \A p \in 1..HPixelCount : hResult[p] = 0
    /\ ( /\ hOtherResult # << >>
         /\ hOtherMode = "fm"
         /\ \A p \in 1..HPixelCount : hOther[p] >= hMap[p] ) =>
         \A p \in 1..HPixelCount :
           /\ \A c \in FMCells(p) : FMFires(hMap, c) => FMFires(hOther, c)
           /\ hOtherResult[p] >= hResult[p]

\* The FM screen has drawn a dot at a cell whose density the density scale
\* takes to 1, and no dot at a cell of positive density that is not above
\* the cell's threshold; and the call on the raised map has run.
C18_Witness ==
  /\ hStage = "other"
  /\ hOptions.mode = "fm"
  /\ hOtherMode = "fm"
  /\ \A p \in 1..HPixelCount : hOther[p] >= hMap[p]
  /\ \E p \in 1..HPixelCount : hOther[p] > hMap[p]
  /\ \E p, q \in 1..HPixelCount :
       /\ hResult[p] > 0
       /\ \E c \in FMCells(p) :
            /\ FMCellDensity(hMap, c) = Scale
            /\ FMCandidate(p, c) = hResult[p]
       /\ \E c \in FMCells(q) :
            /\ FMCellDensity(hMap, c) > 0
            /\ ~FMFires(hMap, c)
            /\ FMFires(hOther, c)

----------------------------------------------------------------------------
(* The screen angles of the layers of an ink list *)

MaxAngleInks == 9

\* Ink lists of black inks: none with an angle, or one of them with a given
\* angle of 0 or of 45 degrees.
AngleColors ==
  UNION { { [i \in 1..n |-> [color |-> HexBlack, angle |-> Undefined]] }
            \cup { [i \in 1..n |-> [color |-> HexBlack,
                                      angle |-> IF i = j THEN a ELSE Undefined]] :
                     j \in 1..n, a \in { 0, 45 } } :
          n \in 1..MaxAngleInks }

AnglesInit ==
  /\ DecompIdle
  /\ StencilIdle
  /\ CompositeIdle
  /\ HalftoneIdle
  /\ ScuffIdle
  /\ BoldIdle
  /\ RecallIdle
  /\ CanvasIdle
  /\ aStage = "start"
  /\ aColors \in AngleColors
  /\ aIndex = 0
  /\ aAngle = 0

\* The head of one pass of the layer loop: the angle of layer ci, then ci++.
AngleOfLayer ==
  /\ aIndex < Len(aColors)
  /\ aStage' = "computed"
  /\ aAngle' = ScreenAngle(aColors, aIndex)
  /\ aIndex' = aIndex + 1
  /\ UNCHANGED << aColors, dvars, svars, cvars, hvars, uvars, bvars, pvars, kvars >>

AnglesNext == AngleOfLayer

SpecAngles == AnglesInit /\ [][AnglesNext]_vars

----------------------------------------------------------------------------
(* Properties of the whole pipeline and of the screen angles *)

\* The Rec. 709 luminance of a pixel as a byte.
LuminanceByte(px) == RoundDiv(Luminance709(px) * 255, Scale)

\* The call is the one of the tone-reproduction test: one pure black ink,
\* inkOpacity 1, density scale 2, white paper, no misregistration, noise or
\* grain.
ToneReproductionCall ==
  /\ Len(colors) = 1
  /\ colors[1].color = HexBlack
  /\ input.options.inkOpacity = Scale
  /\ input.options.density = 2 * Scale
  /\ input.options.paperColor = HexWhite
  /\ input.options.misregistration = 0
  /\ input.options.noise = 0
  /\ input.options.grain = 0
  /\ ~input.options.transparentBg
  /\ ~input.options.invert

\* C19: the tone-reproduction call returns the inverted luminance of its
\* input: at every opaque input pixel the ink darkness 255 - channel of the
\* output pixel, in each of R, G and B, is within 8 levels of 255 - luminance
\* of the input pixel.
C19_InvertedLuminance ==
  (pc = "done" /\ ToneReproductionCall) =>
    \A p \in 1..PixelCount :
      input.data[p][4] = 255 =>
        \A k \in 1..3 :
          Abs((255 - out[p][k]) - (255 - LuminanceByte(input.data[p]))) <= 8

\* C20: the layer of the ink at list position i is screened at the ink's
\* angle when the ink has one, an angle of 0 included, and otherwise at entry
\* i mod 8 of the table 15, 75, 0, 45, 30, 60, 90, 105, however long the list.
C20_ScreenAngle ==
  aStage = "computed" =>
    LET i == aIndex - 1
    IN  aAngle = IF aColors[i + 1].angle # Undefined
                   THEN aColors[i + 1].angle
                   ELSE << 15, 75, 0, 45, 30, 60, 90, 105 >>[(i % 8) + 1]

\* The ninth ink of a list, which has no angle, has been given the first
\* entry of the table, in a list where an earlier ink has the angle 0.
C20_Witness ==
  /\ aStage = "computed"
  /\ aIndex = 9
  /\ aColors[9].angle = Undefined
  /\ aAngle = 15
  /\ \E j \in 1..8 : aColors[j].angle = 0

\* C21: the screen angle acts modulo 180 degrees: applyHalftone with the angle
\* turned by 180 degrees returns, for the same density map and the same other
\* options, the opacity map it returns with the angle itself, in AM mode and
\* in FM mode.
C21_AngleModulo180 == hStage = "turned" => hTurned = hResult

----------------------------------------------------------------------------
(* The scuff pass of the layer loop, on one halftone map *)

MaxScuffInks == 6

\* Opacities below the 0.004 cutoff, in between, and full.
ScuffOpacities == { 0, (3 * Scale) \div 1000, Scale \div 2, Scale }

ScuffMaps ==
  { Array([p \in 1..PixelCount |-> IF p = 1 THEN a ELSE b]) :
      a \in ScuffOpacities, b \in ScuffOpacities }

ScuffInit ==
  /\ DecompIdle
  /\ StencilIdle
  /\ CompositeIdle
  /\ HalftoneIdle
  /\ AnglesIdle
  /\ BoldIdle
  /\ RecallIdle
  /\ CanvasIdle
  /\ uStage = "start"
  /\ uMap \in ScuffMaps
  /\ uCi \in 0..(MaxScuffInks - 1)
  /\ uDotSize \in { Scale, 2 * Scale, 4 * Scale }
  /\ uNoise \in { 0, Scale \div 4, Scale \div 2 }
  /\ uAfter = << >>
  /\ uAgain = << >>

\* The scuff pass over the halftone map of layer uCi.
ScuffPass ==
  /\ uStage = "start"
  /\ uStage' = "scuffed"
  /\ uAfter' = ApplyScuff(uMap, Width, uCi, uDotSize, uNoise)
  /\ UNCHANGED << uMap, uCi, uDotSize, uNoise, uAgain, dvars, svars, cvars, hvars, avars, bvars, pvars, kvars >>

\* The pass again, on the same halftone map of the same layer.
ScuffRepeat ==
  /\ uStage = "scuffed"
  /\ uStage' = "repeated"
  /\ uAgain' = ApplyScuff(uMap, Width, uCi, uDotSize, uNoise)
  /\ UNCHANGED << uMap, uCi, uDotSize, uNoise, uAfter, dvars, svars, cvars, hvars, avars, bvars, pvars, kvars >>

ScuffNext == ScuffPass \/ ScuffRepeat

SpecScuff == ScuffInit /\ [][ScuffNext]_vars

\* C22: the scuff pass is one-sided and deterministic: every opacity after it
\* is at most the opacity before it and at least 0; it is the opacity before
\* it when noise is 0, when the opacity is below 0.004 or when the deviation
\* at the pixel is not positive, and otherwise the opacity times
\* max(0, 1 - deviation * noise * 2), the deviation being a function of the
\* pixel's position, the dot size, the noise parameter and the ink's list
\* position; and the pass repeated gives the same map.
C22_ScuffOneSided ==
  /\ uStage \in { "scuffed", "repeated" } =>
       \A p \in 1..PixelCount :
         LET deviation == ScuffDeviation(p, Width, uCi, uDotSize, uNoise)
         IN  /\ uAfter[p] <= uMap[p]
             /\ uAfter[p] >= 0
             /\ uAfter[p] =
                  IF uNoise > 0 /\ uMap[p] >= (4 * Scale) \div 1000 /\ deviation > 0
                    THEN Mul(uMap[p], Max(0, Scale - Mul(deviation, uNoise) * 2))
                    ELSE uMap[p]
  /\ uStage = "repeated" => uAgain = uAfter

\* The pass has run twice with noise for an ink at whose position the
\* deviation is negative: it has left a full opacity as it was, and one below
\* the cutoff too.
C22_Witness ==
  /\ uStage = "repeated"
  /\ uNoise > 0
  /\ \E p, q \in 1..PixelCount :
       /\ ScuffDeviation(p, Width, uCi, uDotSize, uNoise) < 0
       /\ uMap[p] = Scale
       /\ uAfter[p] = Scale
       /\ uMap[q] > 0 /\ uMap[q] < (4 * Scale) \div 1000
       /\ uAfter[q] = uMap[q]

----------------------------------------------------------------------------
(* applyBoldTransform, phase by phase on one pixel *)

MaxBoldInks == 3

BoldDensities ==
  { 0, (5 * Scale) \div 1000, (2 * Scale) \div 100, Scale \div 10,
    (35 * Scale) \div 100, (6 * Scale) \div 10, Scale }

\* maxD: the largest density at the pixel.
MaxDensity(ds) == MaxOf({ 0 } \cup { ds[i] : i \in 1..Len(ds) })

BoldInit ==
  /\ DecompIdle
  /\ StencilIdle
  /\ CompositeIdle
  /\ HalftoneIdle
  /\ AnglesIdle
  /\ ScuffIdle
  /\ RecallIdle
  /\ CanvasIdle
  /\ bStage = "start"
  /\ bDensities \in SeqsUpTo(BoldDensities, MaxBoldInks)
  /\ bMid = << >>
  /\ bResult = << >>

\* if (maxD < 0.01) continue: the pixel is left as it is.
BoldSkip ==
  /\ bStage = "start"
  /\ MaxDensity(bDensities) < Scale \div 100
  /\ bStage' = "done"
  /\ bMid' = bDensities
  /\ bResult' = bDensities
  /\ UNCHANGED << bDensities, dvars, svars, cvars, hvars, avars, uvars, pvars, kvars >>

\* The suppression with the exponent 1 in place of SUPPRESSION_POWER.
BoldSuppressLinear ==
  /\ bStage = "start"
  /\ MaxDensity(bDensities) >= Scale \div 100
  /\ bStage' = "suppressed"
  /\ bMid' = Array([i \in 1..Len(bDensities) |->
               Mul(bDensities[i], Div(bDensities[i], MaxDensity(bDensities)))])
  /\ UNCHANGED << bDensities, bResult, dvars, svars, cvars, hvars, avars, uvars, pvars, kvars >>

\* Phase 1: the competitive suppression.
BoldSuppress ==
  /\ bStage = "start"
  /\ MaxDensity(bDensities) >= Scale \div 100
  /\ bStage' = "suppressed"
  /\ bMid' = Array([i \in 1..Len(bDensities) |->
               SuppressDensity(bDensities[i], MaxDensity(bDensities))])
  /\ UNCHANGED << bDensities, bResult, dvars, svars, cvars, hvars, avars, uvars, pvars, kvars >>

\* Phase 2: the sigmoid contrast.
BoldSigmoid ==
  /\ bStage = "suppressed"
  /\ bStage' = "done"
  /\ bResult' = Array([i \in 1..Len(bMid) |-> ContrastDensity(bMid[i])])
  /\ UNCHANGED << bDensities, bMid, dvars, svars, cvars, hvars, avars, uvars, pvars, kvars >>

BoldNext == BoldSkip \/ BoldSuppress \/ BoldSigmoid

SpecBold == BoldInit /\ [][BoldNext]_vars

\* C23: applyBoldTransform at one pixel.  If the largest density is below
\* 0.01 the densities are left as they are.  Otherwise the suppression phase
\* multiplies each density by (density / maxD)^2, which leaves the dominant
\* ink as it is and reduces every weaker one; a suppressed value below 0.001
\* becomes 0 and the others go through the normalised sigmoid, a dominant
\* density of 1 giving 1.  Every result is in [0, 1], the inks keep their
\* order by density, and the result is the one the pipeline's transform gives.
C23_BoldTransform ==
  LET n == Len(bDensities)
      maxD == MaxDensity(bDensities)
  IN  /\ (bStage \in { "suppressed", "done" } /\ maxD >= Scale \div 100) =>
           \A i \in 1..n :
             LET ratio == Div(bDensities[i], maxD)
             IN  /\ bMid[i] = Mul(bDensities[i], Mul(ratio, ratio))
                 /\ bDensities[i] = maxD => bMid[i] = bDensities[i]
                 /\ (bDensities[i] > 0 /\ bDensities[i] < maxD) => bMid[i] < bDensities[i]
      /\ bStage = "done" =>
           /\ maxD < Scale \div 100 => bResult = bDensities
           /\ maxD >= Scale \div 100 =>
                \A i \in 1..n :
                  /\ bMid[i] < Scale \div 1000 => bResult[i] = 0
                  /\ bMid[i] = Scale => bResult[i] = Scale
           /\ \A i \in 1..n : bResult[i] \in 0..Scale
           /\ \A i, j \in 1..n : bDensities[i] <= bDensities[j] => bResult[i] <= bResult[j]
           /\ bResult = BoldPixel(bDensities)

\* The transform has run on a pixel with a dominant ink of density 1, a
\* weaker ink that the suppression took below 0.001 and so to 0, and a weaker
\* ink that stayed positive.
C23_Witness ==
  /\ bStage = "done"
  /\ Len(bDensities) = 3
  /\ \E i, j, k \in 1..3 :
       /\ bDensities[i] = Scale /\ bResult[i] = Scale
       /\ bDensities[j] >= Scale \div 100 /\ bMid[j] < Scale \div 1000 /\ bResult[j] = 0
       /\ bMid[k] < bDensities[k] /\ bResult[k] > 0 /\ bResult[k] < Scale

----------------------------------------------------------------------------
(* Properties of the coverage *)

\* The product of 1 - opacity * inkOpacity over those of the first k layers
\* that touched the pixel (opacity not below 0.004).
RECURSIVE Uncovered(_)
Uncovered(k) ==
  IF k = 0 THEN Scale
  ELSE IF cLayers[k].opacity < (4 * Scale) \div 1000 THEN Uncovered(k - 1)
  ELSE Mul(Uncovered(k - 1), Scale - Mul(cLayers[k].opacity, cInkOpacity))

\* C24: the coverage of a pixel is the union of the layers composited so far:
\* 1 minus the product of 1 - opacity * inkOpacity over the layers that
\* touched the pixel; it is in [0, 1]; compositing a further layer never
\* lowers it; and a layer whose opacity at the pixel is below 0.004 changes
\* neither the coverage nor the colour.
C24_CoverageUnion ==
  /\ [](cAlpha = Scale - Uncovered(cK) /\ cAlpha \in 0..Scale)
  /\ [][ /\ cAlpha' >= cAlpha
         /\ (cK' = cK + 1 /\ cLayers[cK'].opacity < (4 * Scale) \div 1000) =>
              (cAlpha' = cAlpha /\ cOut' = cOut) ]_vars

\* Three layers have been composited: one of positive opacity below 0.004,
\* which left the pixel as it was, and two that touched it, the second
\* raising the coverage the first had left.
C24_Witness ==
  /\ cK = 3
  /\ cLayers[1].opacity >= (4 * Scale) \div 1000
  /\ cLayers[2].opacity > 0
  /\ cLayers[2].opacity < (4 * Scale) \div 1000
  /\ cLayers[3].opacity >= (4 * Scale) \div 1000
  /\ cAlpha > Mul(cLayers[1].opacity, cInkOpacity)
  /\ cAlpha < Scale

----------------------------------------------------------------------------
(* Two calls of computeStencil without randomness, the second with the same *)
(* arguments or with another paperColor and everything else the same        *)

\* The paper colours in turn: absent, white, black.
NextPaper(paper) ==
  IF paper = << >> THEN HexWhite
  ELSE IF paper = HexWhite THEN HexBlack
  ELSE << >>

RecallInit ==
  /\ DecompIdle
  /\ CompositeIdle
  /\ HalftoneIdle
  /\ AnglesIdle
  /\ ScuffIdle
  /\ BoldIdle
  /\ RecallIdle
  /\ CanvasIdle
  /\ StencilStart(PlainInputs)

\* The caller keeps what the call computed and calls again, with the same
\* arguments or with the next paper colour.
Recall ==
  /\ pc = "done"
  /\ run < MaxRuns
  /\ \E paper \in { input.options.paperColor, NextPaper(input.options.paperColor) } :
       input' = [input EXCEPT !.options.paperColor = paper]
  /\ prevInput' = input
  /\ prevMaps' = densityMaps
  /\ prevLayer' = [last |-> layer, buffer |-> inkBuf]
  /\ prevAlpha' = alphaMap
  /\ prevOut' = out
  /\ pc' = "start"
  /\ run' = run + 1
  /\ densityMaps' = << >>
  /\ out' = << >>
  /\ alphaMap' = << >>
  /\ ci' = 0
  /\ layer' = NoLayer
  /\ inkBuf' = << >>
  /\ UNCHANGED << randomCalls, dvars, cvars, hvars, avars, uvars, bvars, kvars >>

RecallNext ==
  \/ Separate
  \/ Prepare
  \/ Layer
  \/ Finalize
  \/ Recall

SpecRecall == RecallInit /\ [][RecallNext]_vars

\* The second call has finished.
SecondDone == run = 2 /\ pc = "done"

\* C25: the density maps, the last layer's opacity map, the coverage and the
\* buffer before Phase 2 of a call are those of the call before it whenever the
\* two calls differ at most in paperColor.
C25_WhiteBasis ==
  /\ (run = 2 /\ pc \in { "layers", "done" }) => densityMaps = prevMaps
  /\ SecondDone =>
       /\ layer = prevLayer.last
       /\ alphaMap = prevAlpha
       /\ inkBuf = prevLayer.buffer

\* Two papers, some ink on the plates, and a returned image that the paper changed.
C25_Witness ==
  /\ SecondDone
  /\ input.options.paperColor # prevInput.options.paperColor
  /\ \E i \in 1..Len(densityMaps) : \E p \in 1..PixelCount : densityMaps[i][p] > 0
  /\ out # prevOut

\* C26: without misregistration and grain no random number is drawn, and a call
\* with the arguments of the call before it returns the same bytes.
C26_Deterministic ==
  /\ randomCalls = 0
  /\ (SecondDone /\ input = prevInput) => out = prevOut

\* The same arguments twice with scuff noise that changed the last layer.
C26_Witness ==
  /\ SecondDone
  /\ input = prevInput
  /\ input.options.noise > 0
  /\ Len(colors) > 0
  /\ layer.halftone # LayerHalftone(densityMaps, input.options, Len(colors) - 1, Width, Height)
  /\ \E p \in 1..PixelCount : out[p] # << 255, 255, 255, 255 >>

\* C27: with transparentBg two calls that differ in paperColor only return the
\* same bytes.
C27_TransparentIgnoresPaper ==
  (/\ SecondDone
   /\ input.options.transparentBg
   /\ input.options.paperColor # prevInput.options.paperColor) => out = prevOut

\* Transparent mode, two papers, and a pixel that is partly covered.
C27_Witness ==
  /\ SecondDone
  /\ input.options.transparentBg
  /\ input.options.paperColor # prevInput.options.paperColor
  /\ \E p \in 1..PixelCount : out[p][4] > 0 /\ out[p][4] < 255

----------------------------------------------------------------------------
(* The StencilCanvas component (part_002 lines 60-234).  A render of the    *)
(* component together with the effects it schedules is one step; timer and  *)
(* promise callbacks are steps of their own.                                *)

\* How often the props change.
MaxChanges == 3

\* The props: two sources, two widths, two dot sizes (standing for the options
\* that are plain values) and one black ink with one of two screen angles.
Props ==
  { [ src |-> s, width |-> w, dotSize |-> d,
      colors |-> << [color |-> HexBlack, angle |-> a] >> ] :
      s \in 1..2, w \in 1..2, d \in { 2 * Scale, 4 * Scale }, a \in { 0, 45 } }

\* Props that differ from p in one prop.
OneChange(p) ==
  { q \in Props : Differs(q.src, p.src) + Differs(q.width, p.width)
                    + Differs(q.dotSize, p.dotSize) + Differs(q.colors, p.colors) = 1 }

\* paramsKey: the plain options and the colours of the inks, joined.
ParamsKey(p) == << p.dotSize, [i \in 1..Len(p.colors) |-> p.colors[i].color] \o << >> >>

\* The options processStencil is called with.
StencilParams(p) == [dotSize |-> p.dotSize, colors |-> p.colors]

\* The dependencies of the load effect: [src, width, height].
LoadDeps(p) == << p.src, p.width >>

\* imageData = loaded && loaded.src === src ? loaded.data : null
ImageDataOf(ld, p) == IF ld # << >> /\ ld[1] = p.src THEN ld ELSE << >>

\* The debounce effect: nothing without image data, else a timer whose closure
\* holds the image data and the key of this render.
DebounceEffect(imageData, p) ==
  IF imageData = << >> THEN << >> ELSE << imageData, ParamsKey(p) >>

\* The cleanup of the load effect: a load still in flight is cancelled.
Cancelled(req, stale) ==
  IF req # << >> /\ req[3] = "pending" THEN stale \cup { << req[1], req[2] >> } ELSE stale

\* The first render and its effects: loadImage(src) is called, and no timer is
\* set because there is no image data.
CanvasInit ==
  /\ DecompIdle
  /\ StencilIdle
  /\ CompositeIdle
  /\ HalftoneIdle
  /\ AnglesIdle
  /\ ScuffIdle
  /\ BoldIdle
  /\ RecallIdle
  /\ mounted = "mounted"
  /\ props \in { p \in Props : p.src = 1 /\ p.width = 1 }
  /\ loaded = << >>
  /\ error = << >>
  /\ processedKey = << >>
  /\ paramsRef = props
  /\ request = << props.src, props.width, "pending" >>
  /\ staleLoads = {}
  /\ timerId = << >>
  /\ nested = << >>
  /\ canvas = << >>
  /\ changes = 0

\* The parent renders the component with one prop changed.  paramsRef is
\* updated; the load effect runs again when src or width changed; the debounce
\* effect runs again (cleanup: clearTimeout(timerId)) when imageData or
\* paramsKey changed.
SetProps ==
  /\ mounted = "mounted"
  /\ changes < MaxChanges
  /\ changes' = changes + 1
  /\ \E new \in OneChange(props) :
       /\ props' = new
       /\ paramsRef' = new
       /\ IF LoadDeps(new) # LoadDeps(props)
            THEN /\ staleLoads' = Cancelled(request, staleLoads)
                 /\ request' = << new.src, new.width, "pending" >>
            ELSE UNCHANGED << request, staleLoads >>
       /\ IF \/ ImageDataOf(loaded, new) # ImageDataOf(loaded, props)
             \/ ParamsKey(new) # ParamsKey(props)
            THEN timerId' = DebounceEffect(ImageDataOf(loaded, new), new)
            ELSE UNCHANGED timerId
  /\ UNCHANGED << mounted, loaded, error, processedKey, nested, canvas,
                  dvars, svars, cvars, hvars, avars, uvars, bvars, pvars >>

\* The load of the last request resolves: setLoaded, setError(null); the new
\* image data makes the debounce effect run again.
LoadResolves ==
  /\ mounted = "mounted"
  /\ request[3] = "pending"
  /\ loaded' = << request[1], request[2] >>
  /\ error' = << >>
  /\ request' = [request EXCEPT ![3] = "resolved"]
  /\ timerId' = DebounceEffect(ImageDataOf(loaded', props), props)
  /\ UNCHANGED << mounted, props, processedKey, paramsRef, staleLoads, nested, canvas,
                  changes, dvars, svars, cvars, hvars, avars, uvars, bvars, pvars >>

\* The load of the last request rejects: setError(message).
LoadRejects ==
  /\ mounted = "mounted"
  /\ request[3] = "pending"
  /\ error' = << request[1], request[2] >>
  /\ request' = [request EXCEPT ![3] = "rejected"]
  /\ UNCHANGED << mounted, props, loaded, processedKey, paramsRef, staleLoads, timerId,
                  nested, canvas, changes,
                  dvars, svars, cvars, hvars, avars, uvars, bvars, pvars >>

\* A cancelled load resolves or rejects: if (cancelled) return.
StaleSettles ==
  /\ \E r \in staleLoads : staleLoads' = staleLoads \ { r }
  /\ UNCHANGED << mounted, props, loaded, error, processedKey, paramsRef, request,
                  timerId, nested, canvas, changes,
                  dvars, svars, cvars, hvars, avars, uvars, bvars, pvars >>

\* The debounce timer fires and sets the zero-delay timer.  A zero-delay timer
\* set earlier has run by then: it was due DEBOUNCE_MS before.
DebounceFires ==
  /\ timerId # << >>
  /\ nested = << >>
  /\ nested' = timerId
  /\ timerId' = << >>
  /\ UNCHANGED << mounted, props, loaded, error, processedKey, paramsRef, request,
                  staleLoads, canvas, changes,
                  dvars, svars, cvars, hvars, avars, uvars, bvars, pvars >>

\* The zero-delay timer runs: without a canvas nothing; else processStencil with
\* the image data of the closure and paramsRef.current, then
\* setProcessedKey(paramsKey) with the key of the closure.
RenderFires ==
  /\ nested # << >>
  /\ nested' = << >>
  /\ IF mounted = "mounted"
       THEN /\ canvas' = << nested[1], StencilParams(paramsRef) >>
            /\ processedKey' = nested[2]
       ELSE UNCHANGED << canvas, processedKey >>
  /\ UNCHANGED << mounted, props, loaded, error, paramsRef, request, staleLoads, timerId,
                  changes, dvars, svars, cvars, hvars, avars, uvars, bvars, pvars >>

\* The component unmounts: both cleanups run and the canvas is gone.
Unmount ==
  /\ mounted = "mounted"
  /\ mounted' = "unmounted"
  /\ staleLoads' = Cancelled(request, staleLoads)
  /\ request' = IF request[3] = "pending" THEN [request EXCEPT ![3] = "cancelled"] ELSE request
  /\ timerId' = << >>
  /\ UNCHANGED << props, loaded, error, processedKey, paramsRef, nested, canvas, changes,
                  dvars, svars, cvars, hvars, avars, uvars, bvars, pvars >>

CanvasNext ==
  \/ SetProps
  \/ LoadResolves
  \/ LoadRejects
  \/ StaleSettles
  \/ DebounceFires
  \/ RenderFires
  \/ Unmount

SpecCanvas == CanvasInit /\ [][CanvasNext]_vars

\* Timers that are set fire and loads that were started settle.
SpecCanvasLive ==
  /\ CanvasInit
  /\ [][CanvasNext]_vars
  /\ WF_vars(LoadResolves \/ LoadRejects)
  /\ WF_vars(StaleSettles)
  /\ WF_vars(DebounceFires)
  /\ WF_vars(RenderFires)


\* The image data of this render.
ImageData == ImageDataOf(loaded, props)

\* The zero-delay timer runs in this step and finds the canvas.
Rendering == mounted = "mounted" /\ nested # << >> /\ nested' = << >>

\* processedKey is set together with a rendering of the image data and the
\* parameters of the render that has that key.
KeyOfRendering ==
  Rendering =>
    /\ processedKey' = ParamsKey(props)
    /\ canvas' = << ImageData, StencilParams(props) >>

\* No timer is pending for a parameter set or an image that was superseded.
NoSupersededTimer ==
  /\ timerId # << >> => timerId = << ImageData, ParamsKey(props) >>
  /\ nested # << >> => nested = << ImageData, ParamsKey(props) >>

\* C28: whenever processedKey is set to a key, the canvas is rendered in that
\* step with the image and the parameters of the render with that key, and no
\* render of a superseded parameter set stays pending.
C28_KeyMatchesRendering == [][KeyOfRendering]_vars /\ []NoSupersededTimer

\* The canvas shows the current image data rendered with the current options,
\* and processedKey equals paramsKey.
UpToDate ==
  /\ canvas = << ImageData, StencilParams(props) >>
  /\ processedKey = ParamsKey(props)

\* C29: with an image loaded, the canvas eventually shows, and keeps showing,
\* a rendering with the latest value of every option, and processedKey equals
\* paramsKey.
C29_EventuallyUpToDate ==
  <>[]((mounted = "mounted" /\ ImageData # << >>) => UpToDate)

\* The same with the screen angles of the inks left out of the comparison.
UpToDateButAngles ==
  /\ canvas # << >>
  /\ canvas[1] = ImageData
  /\ canvas[2].dotSize = props.dotSize
  /\ [i \in 1..Len(canvas[2].colors) |-> canvas[2].colors[i].color]
       = [i \in 1..Len(props.colors) |-> props.colors[i].color]
  /\ processedKey = ParamsKey(props)

EventuallyUpToDateButAngles ==
  <>[]((mounted = "mounted" /\ ImageData # << >>) => UpToDateButAngles)

\* A settled load changes loaded and error only if it is the last request.
LoadStateFromLastRequest ==
  (loaded' # loaded \/ error' # error) =>
    /\ request[3] = "pending"
    /\ request'[3] \in { "resolved", "rejected" }
    /\ LoadDeps(props) = << request[1], request[2] >>

\* loaded and error are results of the last request.
LoadStateOfLastRequest ==
  mounted = "mounted" =>
    /\ loaded # << >> => request = << loaded[1], loaded[2], "resolved" >>
    /\ error # << >> => request = << error[1], error[2], "rejected" >>

\* A rendering uses image data only when loaded.src equals the current src.
RenderingOfCurrentSrc ==
  Rendering => (loaded # << >> /\ loaded[1] = props.src /\ nested[1] = loaded)

\* C30: a load that settles after its effect was cleaned up changes no state,
\* loaded and error belong to the last load request, and image data is
\* rendered only when loaded.src equals the current src.
C30_LoadsOfLastRequest ==
  /\ [][LoadStateFromLastRequest /\ RenderingOfCurrentSrc]_vars
  /\ []LoadStateOfLastRequest

\* The parts of C30 one by one.
OnlyLastRequestUpdates == [][LoadStateFromLastRequest]_vars

OnlyCurrentSrcRendered == [][RenderingOfCurrentSrc]_vars


\* The first part of C28 alone.
KeyRecordedWithRendering == [][KeyOfRendering]_vars

=============================================================================
